---- MODULE Spec2Model ----
(***************************************************************************)
(* Model of the Acontext core (acontext_core).                             *)
(*                                                                         *)
(* Spec         : the task table as one data-layer session sees it; one    *)
(*                action per call of insert_task / update_task /           *)
(*                delete_task (service/data/task.py).                      *)
(* SpecTx       : insert_task run by concurrent transactions, one action   *)
(*                per SQL statement, with row locks and commit.            *)
(* SpecAppend   : the append_messages_to_task tool of the task agent       *)
(*                (llm/tool/task_lib/append.py).                           *)
(* SpecBlock    : the block tree of the spaces: creation, SOP blocks,      *)
(*                embeddings and cascading deletes (service/data/block.py, *)
(*                schema/orm).                                             *)
(* SpecSearch   : the semantic search over the block embeddings (api.py).  *)
(* SpecLoop     : one run of an agent loop, one action per completion      *)
(*                call and per tool dispatch (llm/agent), the SOPComplete  *)
(*                messages it publishes and their consumer; SpecLoopFair   *)
(*                adds that a started run keeps being scheduled.           *)
(* SpecHistory  : a message history and its rewriting for the Anthropic    *)
(*                request (llm/complete/anthropic_sdk.py).                 *)
(* SpecRace     : create_new_page and write_sop_block_to_parent run by     *)
(*                concurrent sessions, one action per statement that       *)
(*                reaches the database, and the commit.                    *)
(***************************************************************************)
EXTENDS Integers, Sequences, FiniteSets, TLC

(* ------------------------------ bounds -------------------------------- *)
\* number of task ids that can ever be allocated (ids are never reused)
MaxTasks == 3
\* number of update_task calls explored in one behaviour
MaxUpdates == 1

(* ------------------------------ values -------------------------------- *)
\* Python None / an absent optional argument, and a supplied one
None == <<>>
Some(v) == <<v>>

Sessions == {"A", "B"}
TaskIds == 1..MaxTasks

\* keys of the task data document (TaskData)
Keys == {"task_description", "progresses"}
\* the documents passed as `data`
DocInit == [task_description |-> "t1", progresses |-> "p1"]
DocNew == [task_description |-> "t2"]
\* the document passed as patch_data by the tests
DocPatch == [task_description |-> "t3"]

StatusPending == "pending"
StatusRunning == "running"
StatusSuccess == "success"
StatusFailed == "failed"

VARIABLES
    tasks,      \* the tasks table: task id -> row
    nextId,     \* the next fresh task id
    updates,    \* number of update_task calls so far
    last,       \* the last call: its arguments and its outcome
    hist,       \* per session, what kind of calls it has seen so far
    db,         \* SpecTx: the committed tasks table
    tx,         \* SpecTx: the state of each transaction
    serial,     \* SpecTx: the committed insert_task calls applied one by one
    seen        \* SpecTx: what the last read of another transaction saw

\* SpecAppend: the append_messages_to_task tool and the rows it writes
VARIABLES
    task_index,     \* ctx.task_index: the tasks of the session, by order
    links,          \* task order -> the message ids linked to the task
    progresses,     \* task order -> the progress notes of the task
    appLast         \* the last tool call: its arguments and its result

\* SpecBlock: the block tree of the spaces and the rows that hang on it
VARIABLES
    spaces,             \* the ids of the rows of table spaces
    blocks,             \* table blocks: block id -> row
    nextBlock,          \* the next fresh block id
    block_embeddings,   \* table block_embeddings: a set of rows
    tool_sops,          \* table tool_sops: a set of rows
    tool_references,    \* table tool_references: the names of the project
    blkLast             \* the last call: its arguments and its outcome

\* SpecSearch: the embeddings the semantic search reads and its last answer
VARIABLES
    index,      \* the embedded content blocks, in insertion order
    found       \* the last search: its arguments and the returned items

\* SpecLoop: one run of an agent (sop_agent_curd or space_agent_search)
VARIABLES
    run,        \* the locals of the run, its position and its result
    mq,         \* the SOPComplete messages published to the exchange
    sopLast     \* the last delivery to space_sop_complete_task

\* SpecHistory: a message history and what the Anthropic request carries
VARIABLES
    history,    \* history_messages, as the agent loops build them
    sendable    \* the last result of process_messages

\* SpecRace: the sessions that write blocks at the same time
VARIABLES
    btx         \* per session: the call it runs, its position, its rows

storeVars == <<tasks, nextId, updates, last, hist>>
txVars == <<db, tx, serial, seen>>
appVars == <<task_index, links, progresses, appLast>>
blkVars == <<spaces, blocks, nextBlock, block_embeddings, tool_sops,
            tool_references, blkLast>>
idxVars == <<index, found>>
loopVars == <<run, mq, sopLast>>
msgVars == <<history, sendable>>
raceVars == <<btx>>
extVars == <<appVars, blkVars, idxVars, loopVars, msgVars, raceVars>>
vars == <<storeVars, txVars, extVars>>

(* --------------------------- pure helpers ----------------------------- *)
\* the ids of the tasks of session s in table T
TasksOf(T, s) == {i \in DOMAIN T : T[i].session_id = s}

\* the set of order values of session s in table T
OrdersOf(T, s) == {T[i].task_order : i \in TasksOf(T, s)}

\* UniqueConstraint(session_id, task_order) of the tasks table
uq_session_id_task_order(T) ==
    \A i, j \in DOMAIN T :
        (i # j /\ T[i].session_id = T[j].session_id)
            => T[i].task_order # T[j].task_order

\* Step 1 of insert_task: UPDATE ... WHERE task_order > after_order
\*                        SET task_order = -task_order
temp_update_stmt_ge(T, s, after_order) ==
    [i \in DOMAIN T |->
        IF T[i].session_id = s /\ T[i].task_order >= after_order
        THEN [T[i] EXCEPT !.task_order = -T[i].task_order]
        ELSE T[i]]

temp_update_stmt(T, s, after_order) ==
    [i \in DOMAIN T |->
        IF T[i].session_id = s /\ T[i].task_order > after_order
        THEN [T[i] EXCEPT !.task_order = -T[i].task_order]
        ELSE T[i]]

\* Step 2 of insert_task: UPDATE ... WHERE task_order < 0
\*                        SET task_order = -task_order + 1
final_update_stmt_noinc(T, s) ==
    [i \in DOMAIN T |->
        IF T[i].session_id = s /\ T[i].task_order < 0
        THEN [T[i] EXCEPT !.task_order = -T[i].task_order]
        ELSE T[i]]

final_update_stmt(T, s) ==
    [i \in DOMAIN T |->
        IF T[i].session_id = s /\ T[i].task_order < 0
        THEN [T[i] EXCEPT !.task_order = -T[i].task_order + 1]
        ELSE T[i]]

\* Step 3 of insert_task: the new row
NewTask_head(s, after_order, data, status) ==
    [session_id |-> s, task_order |-> 1,
     task_data |-> data, task_status |-> status]

NewTask(s, after_order, data, status) ==
    [session_id |-> s, task_order |-> after_order + 1,
     task_data |-> data, task_status |-> status]

\* the table after a whole insert_task call that allocates id
insert_task_noshift(T, id, s, after_order, data, status) ==
    [i \in DOMAIN T \cup {id} |->
        IF i = id THEN NewTask(s, after_order, data, status) ELSE T[i]]

insert_task(T, id, s, after_order, data, status) ==
    LET T1 == temp_update_stmt(T, s, after_order)
        T2 == final_update_stmt(T1, s)
    IN  [i \in DOMAIN T2 \cup {id} |->
            IF i = id THEN NewTask(s, after_order, data, status) ELSE T2[i]]

\* lines 44-50 of update_task: only the non-None parameters are applied
apply_update_falsy(t, status, order, data) ==
    [session_id |-> t.session_id,
     task_status |-> IF status # None THEN status[1] ELSE t.task_status,
     task_order |-> IF order # None THEN order[1] ELSE 0,
     task_data |-> IF data # None THEN data[1] ELSE t.task_data]

apply_update(t, status, order, data) ==
    [session_id |-> t.session_id,
     task_status |-> IF status # None THEN status[1] ELSE t.task_status,
     task_order |-> IF order # None THEN order[1] ELSE t.task_order,
     task_data |-> IF data # None THEN data[1] ELSE t.task_data]

\* update_task: the result, the returned task and the table in the session
update_task_nocheck(T, id, status, order, data) ==
    IF id \notin DOMAIN T
    THEN [result |-> "ok", ret |-> None, T |-> T]
    ELSE [result |-> "ok",
          ret |-> Some(apply_update(T[id], status, order, data)),
          T |-> [T EXCEPT ![id] = apply_update(T[id], status, order, data)]]

update_task(T, id, status, order, data) ==
    IF id \notin DOMAIN T
    THEN [result |-> "reject", ret |-> None, T |-> T]
    ELSE [result |-> "ok",
          ret |-> Some(apply_update(T[id], status, order, data)),
          T |-> [T EXCEPT ![id] = apply_update(T[id], status, order, data)]]

\* delete_task: DELETE FROM tasks WHERE id = task_id, then resolve(None)
delete_task_fetch_first(T, id) ==
    IF id \notin DOMAIN T
    THEN [result |-> "reject", T |-> T]
    ELSE [result |-> "ok", T |-> [i \in DOMAIN T \ {id} |-> T[i]]]

delete_task_session(T, id) ==
    [result |-> "ok",
     T |-> [i \in {j \in DOMAIN T :
                     id \in DOMAIN T => T[j].session_id # T[id].session_id}
              |-> T[i]]]

delete_task(T, id) ==
    [result |-> "ok", T |-> [i \in DOMAIN T \ {id} |-> T[i]]]

\* the record of the last call; hit: the call found the row of its task id
Call(op, s, id, after, status, order, data, patch, result, ret, hit) ==
    [op |-> op, session |-> s, id |-> id, after |-> after, status |-> status,
     order |-> order, data |-> data, patch |-> patch,
     result |-> result, ret |-> ret, hit |-> hit]

NoCall == Call("none", "A", 0, 0, None, None, None, None, "none", None, FALSE)

\* history of a session:
\*   inRange : every insert_task so far had 0 <= after_order <= task count
\*   inserts : it has seen no delete of one of its tasks and no update that
\*             supplies order
\*   headRun : number of insert_task(after_order = 0) calls, while these are
\*             the only calls that touched the session; -1 afterwards
NoHist == [inRange |-> TRUE, inserts |-> TRUE, headRun |-> 0]


(* ---------------------- transactions (SpecTx) ------------------------- *)
Txs == {"t1", "t2"}

\* a transaction that runs no insert_task
IdleTx == [pc |-> "idle", session |-> "A", after |-> 0, snap |-> {},
           locks |-> {}, writes |-> <<>>, newId |-> 0, result |-> "none"]

NoRead == [session |-> "A", rows |-> <<>>, expect |-> <<>>, during |-> FALSE]

\* lock_query: SELECT id FROM tasks WHERE session_id = s FOR UPDATE
lock_query_all(D, s) == DOMAIN D

lock_query(D, s) == TasksOf(D, s)

\* db_session.flush(): the statements are sent, nothing is committed
flush_commits(D, W) ==
    [i \in DOMAIN D \cup DOMAIN W |-> IF i \in DOMAIN W THEN W[i] ELSE D[i]]

flush(D, W) == D

\* the table as transaction t sees it: committed rows and its own writes
View(t) ==
    [i \in DOMAIN db \cup DOMAIN tx[t].writes |->
        IF i \in DOMAIN tx[t].writes THEN tx[t].writes[i] ELSE db[i]]

\* the rows locked by the transactions other than t
LockedByOthers(t) == UNION {tx[u].locks : u \in Txs \ {t}}

\* the rows a statement taking the view V to W has written
Written(V, W) == {i \in DOMAIN W : i \notin DOMAIN V \/ W[i] # V[i]}

\* the writes of t after a statement that takes its view V to W
WritesAfter(t, V, W) ==
    [i \in DOMAIN tx[t].writes \cup Written(V, W) |-> W[i]]

\* the (session_id, task_order) keys written and not yet committed by others
PendingKeys(t) ==
    UNION {{<<tx[u].writes[i].session_id, tx[u].writes[i].task_order>> :
               i \in DOMAIN tx[u].writes} : u \in Txs \ {t}}

\* the rows of W, outside wr, that hold the (session_id, task_order) key of a
\* row of wr, and the rows of wr that share a key
Conflicts(W, wr) ==
    {i \in DOMAIN W :
        \E j \in wr : /\ i # j
                      /\ W[i].session_id = W[j].session_id
                      /\ W[i].task_order = W[j].task_order}

\* the smallest task id used neither by a committed row nor by a write
FreshId ==
    CHOOSE i \in TaskIds :
        /\ i \notin DOMAIN db \cup UNION {DOMAIN tx[u].writes : u \in Txs}
        /\ \A j \in 1..(i - 1) :
              j \in DOMAIN db \cup UNION {DOMAIN tx[u].writes : u \in Txs}

\* the transactions that run an insert_task
Active == {t \in Txs : tx[t].pc # "idle"}

\* t is between its lock query and its commit
InSection(t) == tx[t].pc \in {"shift1", "shift2", "insert", "commit"}

\* the ids of session s in T, ascending by task_order
RECURSIVE fetch_current_tasks(_, _)
fetch_current_tasks(T, s) ==
    IF TasksOf(T, s) = {} THEN <<>>
    ELSE LET m == CHOOSE i \in TasksOf(T, s) :
                    \A j \in TasksOf(T, s) :
                        \/ T[i].task_order < T[j].task_order
                        \/ (T[i].task_order = T[j].task_order /\ i <= j)
         IN  <<[id |-> m, task_order |-> T[m].task_order]>>
                \o fetch_current_tasks([i \in DOMAIN T \ {m} |-> T[i]], s)

(* ------------- append_messages_to_task tool (SpecAppend) -------------- *)
\* progress notes one task can collect in one behaviour
MaxNotes == 1

\* ctx.task_ids_index and ctx.message_ids_index of the TaskCtx
task_ids_index == <<"ta", "tb">>
message_ids_index == <<"m1", "m2">>

\* a Result: resolve(msg) is the success result, reject(msg) the error one
ResultResolve == "resolve"
ResultReject == "reject"

\* the messages of the handler
AppendMsg ==
    [no_order |-> "You must provide a task order argument",
     out_of_range |-> "Task order is out of range",
     skip |-> "No message ids to append, skip",
     terminal |-> "Appending failed. Task is already success or failed",
     appended |-> "Messages and progress are appended"]

\* TD.append_messages_to_task: links the messages to the task
append_messages_to_task(L, message_ids, task_id) ==
    [L EXCEPT ![task_id] = @ \cup {message_ids[k] : k \in DOMAIN message_ids}]

\* TD.append_progress_to_task: appends the note to data.progresses
append_progress_to_task(P, task_id, progress) ==
    [P EXCEPT ![task_id] = Append(@, progress)]

RECURSIVE actually_message_ids(_, _)
actually_message_ids(ctx, indexes) ==
    IF indexes = <<>> THEN <<>>
    ELSE LET i == Head(indexes)
             rest == actually_message_ids(ctx, Tail(indexes))
         IN  IF i < Len(ctx.message_ids_index)
             THEN \* Python's seq[i]: a negative index counts from the end
                  <<ctx.message_ids_index[IF i >= 0 THEN i + 1
                                          ELSE Len(ctx.message_ids_index) + i + 1]>>
                    \o rest
             ELSE rest

_append_messages_to_task_handler_nocheck(ctx, L, P, task_order, indexes, progress_note) ==
    IF task_order = None \/ task_order = Some(0)
    THEN [result |-> ResultResolve, msg |-> AppendMsg.no_order, L |-> L, P |-> P]
    ELSE IF task_order[1] > Len(ctx.task_ids_index) \/ task_order[1] < 1
    THEN [result |-> ResultResolve, msg |-> AppendMsg.out_of_range, L |-> L, P |-> P]
    ELSE LET id == ctx.task_ids_index[task_order[1]]
             ids == actually_message_ids(ctx, indexes)
             L1 == append_messages_to_task(L, ids, id)
         IN  IF ids = <<>>
             THEN [result |-> ResultResolve, msg |-> AppendMsg.skip,
                   L |-> L, P |-> P]
             ELSE [result |-> ResultResolve, msg |-> AppendMsg.appended, L |-> L1,
                   P |-> IF progress_note # None
                         THEN append_progress_to_task(P, id, progress_note[1])
                         ELSE P]

\* _append_messages_to_task_handler(ctx, llm_arguments)
_append_messages_to_task_handler(ctx, L, P, task_order, indexes, progress_note) ==
    IF task_order = None \/ task_order = Some(0)
    THEN [result |-> ResultResolve, msg |-> AppendMsg.no_order, L |-> L, P |-> P]
    ELSE IF task_order[1] > Len(ctx.task_ids_index) \/ task_order[1] < 1
    THEN [result |-> ResultResolve, msg |-> AppendMsg.out_of_range, L |-> L, P |-> P]
    ELSE LET id == ctx.task_ids_index[task_order[1]]
             actually_task == ctx.task_index[task_order[1]]
             ids == actually_message_ids(ctx, indexes)
             L1 == append_messages_to_task(L, ids, id)
         IN  IF ids = <<>>
             THEN [result |-> ResultResolve, msg |-> AppendMsg.skip,
                   L |-> L, P |-> P]
             ELSE IF actually_task.status \in {StatusSuccess, StatusFailed}
             THEN [result |-> ResultResolve, msg |-> AppendMsg.terminal,
                   L |-> L, P |-> P]
             ELSE [result |-> ResultResolve, msg |-> AppendMsg.appended, L |-> L1,
                   P |-> IF progress_note # None
                         THEN append_progress_to_task(P, id, progress_note[1])
                         ELSE P]

AppCall(op, task_order, status, result, msg) ==
    [op |-> op, task_order |-> task_order, status |-> status,
     result |-> result, msg |-> msg]

(* --------------------- the block tree (SpecBlock) --------------------- *)
\* number of block ids that can ever be allocated (ids are never reused)
MaxBlocks == 3

Spaces == {"S1", "S2"}
BlockIds == 1..MaxBlocks

BLOCK_TYPES ==
    [page |-> [allow_children |-> TRUE, require_parent |-> FALSE],
     folder |-> [allow_children |-> TRUE, require_parent |-> FALSE],
     text |-> [allow_children |-> TRUE, require_parent |-> TRUE],
     sop |-> [allow_children |-> TRUE, require_parent |-> TRUE]]

is_valid_block_type(type) == type \in DOMAIN BLOCK_TYPES

\* Block.validate_for_creation
validate_for_creation(type, parent_id) ==
    IF ~is_valid_block_type(type) THEN ResultReject
    ELSE IF BLOCK_TYPES[type].require_parent /\ parent_id = None
    THEN ResultReject
    ELSE ResultResolve

\* CheckConstraint ck_block_type of table blocks
ck_block_type(type) == type \in {"page", "text", "sop"}

\* what the flush of a new blocks row checks: ck_block_type, the foreign
\* keys to spaces and to blocks, and the unique index
\* ux_blocks_space_parent_sort (rows with a NULL parent_id never collide)
flush_block(B, S, row) ==
    /\ ck_block_type(row.type)
    /\ row.space_id \in S
    /\ row.parent_id # None => row.parent_id[1] \in DOMAIN B
    /\ row.parent_id # None =>
         \A i \in DOMAIN B :
            ~(/\ B[i].space_id = row.space_id
              /\ B[i].parent_id = row.parent_id
              /\ B[i].sort = row.sort)

\* the rows that share a space and a parent
Siblings(B, space_id, par_block_id) ==
    {i \in DOMAIN B : B[i].space_id = space_id /\ B[i].parent_id = par_block_id}

_find_block_sort_count(B, space_id, par_block_id) ==
    IF par_block_id # None /\ par_block_id[1] \notin DOMAIN B
    THEN [result |-> ResultReject, sort |-> 0]
    ELSE [result |-> ResultResolve,
          sort |-> Cardinality(Siblings(B, space_id, par_block_id))]

\* coalesce(max(Block.sort), -1) + 1 over the rows of (space_id, parent_id)
_find_block_sort(B, space_id, par_block_id) ==
    IF par_block_id # None /\ par_block_id[1] \notin DOMAIN B
    THEN [result |-> ResultReject, sort |-> 0]
    ELSE LET sorts == {B[i].sort : i \in Siblings(B, space_id, par_block_id)}
                        \cup {-1}
         IN  [result |-> ResultResolve,
              sort |-> (CHOOSE x \in sorts : \A y \in sorts : y <= x) + 1]

create_block_novalidate(B, S, id, type, space_id, par_block_id) ==
    LET r == _find_block_sort(B, space_id, par_block_id)
        row == [space_id |-> space_id, type |-> type,
                parent_id |-> par_block_id, sort |-> r.sort]
    IN  IF r.result # ResultResolve
        THEN [result |-> ResultReject, B |-> B]
        ELSE IF ~flush_block(B, S, row)
        THEN [result |-> "IntegrityError", B |-> B]
        ELSE [result |-> ResultResolve, B |-> (id :> row) @@ B]

\* the steps create_new_page and write_sop_block_to_parent take to store a
\* block: find the sort, build the Block, validate it, add it and flush
create_block(B, S, id, type, space_id, par_block_id) ==
    LET r == _find_block_sort(B, space_id, par_block_id)
        row == [space_id |-> space_id, type |-> type,
                parent_id |-> par_block_id, sort |-> r.sort]
    IN  IF r.result # ResultResolve
        THEN [result |-> ResultReject, B |-> B]
        ELSE IF validate_for_creation(type, par_block_id) # ResultResolve
        THEN [result |-> ResultReject, B |-> B]
        ELSE IF ~flush_block(B, S, row)
        THEN [result |-> "IntegrityError", B |-> B]
        ELSE [result |-> ResultResolve, B |-> (id :> row) @@ B]

\* str.strip and str.lower on the strings the calls pass
strip(x) == CASE x = " " -> "" [] x = " Tool_A " -> "Tool_A" [] OTHER -> x
lower(x) == CASE x = "Tool_A" -> "tool_a" [] OTHER -> x

\* the loop of write_sop_block_to_parent over sop_data.tool_sops, from step
\* k on: one ToolSOP row per step, linked to the ToolReference of the
\* lower-cased tool name. ToolReference(name=..., project_id=...) leaves out
\* the required fields description and arguments_schema of the dataclass, so
\* building a missing reference raises TypeError
RECURSIVE sop_steps(_, _, _, _, _)
sop_steps(T, R, steps, k, sop_block_id) ==
    IF k > Len(steps) THEN [result |-> ResultResolve, T |-> T]
    ELSE LET tool_name == strip(steps[k])
         IN  IF tool_name = "" THEN [result |-> ResultReject, T |-> T]
             ELSE IF lower(tool_name) \notin R
             THEN [result |-> "TypeError", T |-> T]
             ELSE sop_steps(
                    T \cup {[sop_block_id |-> sop_block_id,
                             tool_reference_id |-> lower(tool_name),
                             step |-> k]},
                    R, steps, k + 1, sop_block_id)

\* write_sop_block_to_parent(db_session, space_id, par_block_id, sop_data);
\* an exception rolls the session back, a returned Result does not
write_sop_block_to_parent(B, S, T, R, id, space_id, par_block_id, sop_data) ==
    IF sop_data.tool_sops = <<>> /\ strip(sop_data.preferences) = ""
    THEN [result |-> ResultReject, B |-> B, T |-> T]
    ELSE IF space_id \notin S
    THEN [result |-> "ValueError", B |-> B, T |-> T]
    ELSE LET c == create_block(B, S, id, "sop", space_id, par_block_id)
             st == sop_steps(T, R, sop_data.tool_sops, 1, id)
         IN  IF c.result # ResultResolve
             THEN [result |-> c.result, B |-> B, T |-> T]
             ELSE IF st.result = "TypeError"
             THEN [result |-> "TypeError", B |-> B, T |-> T]
             ELSE IF st.result = ResultReject
             THEN [result |-> ResultReject, B |-> c.B, T |-> st.T]
             ELSE \* the function returns new_block.id, not a Result
                  [result |-> "asUUID", B |-> c.B, T |-> st.T]

Descendants_direct(B, id) ==
    {i \in DOMAIN B : B[i].parent_id = Some(id)}

\* the blocks under block id at any depth (Block.children, parent_id)
RECURSIVE Descendants(_, _)
Descendants(B, id) ==
    LET children == {i \in DOMAIN B : B[i].parent_id = Some(id)}
    IN  children \cup UNION {Descendants(B, c) : c \in children}

\* deleting the blocks roots: the delete cascades along Block.children /
\* blocks.parent_id, Block.embeddings / block_embeddings.block_id and
\* Block.tool_sops / tool_sops.sop_block_id
cascade_delete(B, E, T, roots) ==
    LET gone == roots \cup UNION {Descendants(B, r) : r \in roots}
    IN  [B |-> [i \in DOMAIN B \ gone |-> B[i]],
         E |-> {e \in E : e.block_id \notin gone},
         T |-> {t \in T : t.sop_block_id \notin gone}]

\* session.delete(space): Space.blocks and Space.block_embeddings cascade
delete_space(B, E, T, space_id) ==
    LET c == cascade_delete(B, E, T,
                            {i \in DOMAIN B : B[i].space_id = space_id})
    IN  [c EXCEPT !.E = {e \in c.E : e.space_id # space_id}]

\* a call and its outcome; gone are the ids of the blocks rows, rows the
\* number of block_embeddings and tool_sops rows the call removed
BlkCall(op, type, space_id, parent_id, id, result, gone, rows) ==
    [op |-> op, type |-> type, space_id |-> space_id,
     parent_id |-> parent_id, id |-> id, result |-> result,
     gone |-> gone, rows |-> rows]

(* -------------------- semantic search (SpecSearch) -------------------- *)
\* number of content blocks that get an embedding
MaxEmbeddings == 3

\* the cosine distance (embedding <=> query vector) of the embeddings the
\* test stores to its query vector [1.0, 0.0, ...], in units of 1/10000:
\* v1 = [1.0, 0.0, ...], v2 = [0.9, 0.1, ...], v3 = [0.0, 1.0, ...]
cosine_distance == [v1 |-> 0, v2 |-> 61, v3 |-> 10000]

\* DEFAULT_CORE_CONFIG.block_embedding_search_cosine_distance_threshold
block_embedding_search_cosine_distance_threshold == 5000

\* ORDER BY distance: ascending, rows of equal distance in insertion order
RECURSIVE order_by_distance(_)
order_by_distance(rows) ==
    IF rows = <<>> THEN <<>>
    ELSE LET k == CHOOSE k \in DOMAIN rows :
                     \A j \in DOMAIN rows :
                        \/ rows[k].distance < rows[j].distance
                        \/ rows[k].distance = rows[j].distance /\ k <= j
         IN  <<rows[k]>> \o order_by_distance(
                 [j \in 1..(Len(rows) - 1) |->
                    IF j < k THEN rows[j] ELSE rows[j + 1]])

\* BS.search_content_blocks(db_session, project_id, space_id, query, topk,
\* threshold): the blocks of the space whose embedding lies within the
\* threshold, nearest first, at most topk of them
search_content_blocks(X, space_id, topk, threshold) ==
    LET rows == [i \in DOMAIN X |->
                   [block_id |-> i, space_id |-> X[i].space_id,
                    distance |-> cosine_distance[X[i].embedding]]]
        hits == order_by_distance(
                  SelectSeq(rows, LAMBDA r : /\ r.space_id = space_id
                                             /\ r.distance <= threshold))
    IN  SubSeq(hits, 1, IF Len(hits) < topk THEN Len(hits) ELSE topk)

semantic_grep_search_func_default(X, threshold, space_id, limit) ==
    LET block_distances ==
          search_content_blocks(
              X, space_id, limit,
              block_embedding_search_cosine_distance_threshold)
        items == [i \in DOMAIN block_distances |->
                    [block_id |-> block_distances[i].block_id,
                     distance |-> block_distances[i].distance]]
    IN  SelectSeq(items, LAMBDA it : X[it.block_id].props # None)

\* semantic_grep_search_func(threshold, project_id, space_id, query, limit)
semantic_grep_search_func(X, threshold, space_id, limit) ==
    LET search_threshold ==
          IF threshold # None THEN threshold[1]
          ELSE block_embedding_search_cosine_distance_threshold
        block_distances ==
          search_content_blocks(X, space_id, limit, search_threshold)
        items == [i \in DOMAIN block_distances |->
                    [block_id |-> block_distances[i].block_id,
                     distance |-> block_distances[i].distance]]
    IN  \* a block that renders without props is left out
        SelectSeq(items, LAMBDA it : X[it.block_id].props # None)

(* ----------------------- agent runs (SpecLoop) ------------------------ *)
\* the largest max_iterations a run is started with
MaxIterations == 3
\* the deliveries of SOPComplete messages to the consumer
MaxDeliveries == 2

SOP_TOOLS == {"submit_sop", "report_thinking"}
SPACE_SEARCH_TOOLS == {"finish", "search_content", "report_thinking"}

\* the run before it is started. completions counts the llm_complete calls,
\* handled the tool handlers that ran; plain says that every response so far
\* carried tool calls that succeeded, none of them the finish / submit_sop
\* tool, and that the located blocks stayed under the limit; quiet says that
\* the first response carried no tool calls; event is the last thing that
\* happened to the run, call the last tool call that was dispatched and
\* located the number of handler results that located a block; messages is
\* the list _messages, ctxs counts the Context objects the run constructed
\* and db_sessions the sessions of DB_CLIENT.get_session_context() that the
\* run has entered and not left
IdleRun ==
    [agent |-> "", pc |-> "idle", max_iterations |-> 0, limit |-> 0,
     already_iterations |-> 0, use_tools |-> <<>>, sentinel |-> FALSE,
     USE_CTX |-> None, completions |-> 0, handled |-> 0, plain |-> TRUE,
     quiet |-> FALSE, result |-> "", data |-> "", event |-> "",
     call |-> [name |-> ""], located |-> 0,
     messages |-> <<>>, tool_response |-> <<>>, ctxs |-> 0, db_sessions |-> 0]

\* the run returns: a Result (resolve / reject) or an exception that escapes
return(r, result, data) ==
    [r EXCEPT !.pc = "done", !.result = result, !.data = data,
              !.plain = @ /\ result = ResultResolve]

\* pack_task_data(current_task, message_blobs) reads task.data: a
\* TaskSchema has it, the task id that process_space_task passes has not
pack_task_data(task) ==
    IF task.type = "TaskSchema" THEN "packed" ELSE "AttributeError"

llm_complete_retry(r, llm_return) ==
    LET r0 == [r EXCEPT !.completions = @ + 1]
        \* _messages.append(response_to_sendable_message(llm_return))
        r1 == [r0 EXCEPT !.messages =
                   Append(@, [role |-> "assistant",
                              tool_calls |->
                                 [i \in DOMAIN llm_return.tool_calls |->
                                     [id |-> llm_return.tool_calls[i].id,
                                      name |->
                                         llm_return.tool_calls[i].name]]])]
    IN  IF llm_return.eil THEN [r0 EXCEPT !.event = "llm_error"]
        ELSE IF llm_return.tool_calls = <<>>
        THEN [r1 EXCEPT !.pc = "end", !.plain = FALSE,
                        !.quiet = (r.completions = 0),
                        !.event = "no_tool_calls"]
        ELSE [r1 EXCEPT
                !.pc = "tools",
                !.event = "tool_calls",
                !.use_tools = llm_return.tool_calls,
                !.tool_response = <<>>,
                !.ctxs = IF r.agent = "sop" THEN @ + 1 ELSE @,
                !.USE_CTX = IF r.agent = "sop"
                            THEN Some([id |-> r.ctxs + 1,
                                       project_id |-> "p1",
                                       space_id |-> "S1",
                                       task |-> [id |-> "t1"]])
                            ELSE @]

llm_complete_reversed(r, llm_return) ==
    LET r0 == [r EXCEPT !.completions = @ + 1]
        r1 == [r0 EXCEPT !.messages =
                   Append(@, [role |-> "assistant",
                              tool_calls |->
                                 [i \in DOMAIN llm_return.tool_calls |->
                                     [id |-> llm_return.tool_calls[i].id,
                                      name |->
                                         llm_return.tool_calls[i].name]]])]
    IN  IF llm_return.eil
        THEN return([r0 EXCEPT !.event = "llm_error"], ResultReject, "eil")
        ELSE IF llm_return.tool_calls = <<>>
        THEN [r1 EXCEPT !.pc = "end", !.plain = FALSE,
                        !.quiet = (r.completions = 0),
                        !.event = "no_tool_calls"]
        ELSE [r1 EXCEPT
                !.pc = "tools",
                !.event = "tool_calls",
                !.use_tools =
                   [i \in DOMAIN llm_return.tool_calls |->
                       llm_return.tool_calls[
                          Len(llm_return.tool_calls) + 1 - i]],
                !.tool_response = <<>>,
                !.ctxs = IF r.agent = "sop" THEN @ + 1 ELSE @,
                !.USE_CTX = IF r.agent = "sop"
                            THEN Some([id |-> r.ctxs + 1,
                                       project_id |-> "p1",
                                       space_id |-> "S1",
                                       task |-> [id |-> "t1"]])
                            ELSE @]

\* r = await llm_complete(...) and the lines up to the for loop
llm_complete(r, llm_return) ==
    LET r0 == [r EXCEPT !.completions = @ + 1]
        \* _messages.append(response_to_sendable_message(llm_return))
        r1 == [r0 EXCEPT !.messages =
                   Append(@, [role |-> "assistant",
                              tool_calls |->
                                 [i \in DOMAIN llm_return.tool_calls |->
                                     [id |-> llm_return.tool_calls[i].id,
                                      name |->
                                         llm_return.tool_calls[i].name]]])]
    IN  IF llm_return.eil
        THEN return([r0 EXCEPT !.event = "llm_error"], ResultReject, "eil")
        ELSE IF llm_return.tool_calls = <<>>
        THEN [r1 EXCEPT !.pc = "end", !.plain = FALSE,
                        !.quiet = (r.completions = 0),
                        !.event = "no_tool_calls"]
        ELSE [r1 EXCEPT
                !.pc = "tools",
                !.event = "tool_calls",
                !.use_tools = llm_return.tool_calls,
                !.tool_response = <<>>,
                \* USE_CTX = SOPCtx(project_id, space_id, task=current_task)
                !.ctxs = IF r.agent = "sop" THEN @ + 1 ELSE @,
                !.USE_CTX = IF r.agent = "sop"
                            THEN Some([id |-> r.ctxs + 1,
                                       project_id |-> "p1",
                                       space_id |-> "S1",
                                       task |-> [id |-> "t1"]])
                            ELSE @]

submit_sop_handler_publish(ctx, llm_arguments) ==
    IF ~({"use_when", "preferences", "tool_sops"} \subseteq DOMAIN llm_arguments)
    THEN [result |-> ResultReject, publish |-> <<>>]
    ELSE [result |-> ResultResolve,
          publish |-> <<[project_id |-> ctx.project_id,
                         space_id |-> ctx.space_id,
                         task_id |-> ctx.task.id,
                         sop_data |-> llm_arguments]>>]

\* submit_sop_handler(ctx, llm_arguments): the Result it returns and the
\* SOPComplete messages it publishes. SOPData.model_validate needs the
\* fields use_when, preferences and tool_sops
submit_sop_handler(ctx, llm_arguments) ==
    IF ~({"use_when", "preferences", "tool_sops"} \subseteq DOMAIN llm_arguments)
    THEN [result |-> ResultReject, publish |-> <<>>]
    ELSE IF /\ Len(llm_arguments.tool_sops) = 0
            /\ strip(llm_arguments.preferences) = ""
    THEN \* "Agent submitted an empty SOP, drop"
         [result |-> ResultResolve, publish |-> <<>>]
    ELSE [result |-> ResultResolve,
          publish |-> <<[project_id |-> ctx.project_id,
                         space_id |-> ctx.space_id,
                         task_id |-> ctx.task.id,
                         sop_data |-> llm_arguments]>>]

dispatch_skip(r) ==
    LET tool_call == Head(r.use_tools)
        tool_name == tool_call.name
        pool == IF r.agent = "sop" THEN SOP_TOOLS ELSE SPACE_SEARCH_TOOLS
        r1 == [r EXCEPT
                 !.use_tools = Tail(@),
                 !.call = tool_call,
                 !.sentinel = @ \/ tool_name = "submit_sop"
                                \/ (r.agent = "search" /\ tool_name = "finish"),
                 !.plain = @ /\ tool_name \notin {"submit_sop", "finish"}]
        ctx == IF r.agent = "search"
               THEN [id |-> IF r.USE_CTX = None THEN r.ctxs + 1
                            ELSE r.USE_CTX[1].id,
                     db_session |-> "closed",
                     located_content_blocks |->
                        (IF r.USE_CTX = None THEN 0
                         ELSE r.USE_CTX[1].located_content_blocks)
                        + (IF tool_call.returns = "located" THEN 1 ELSE 0)]
               ELSE r.USE_CTX[1]
        with_session == IF r.agent = "search" THEN 1 ELSE 0
        entered == r.db_sessions + with_session
        returns == IF tool_name = "submit_sop" /\ tool_name \in pool
                   THEN submit_sop_handler(ctx, tool_call.arguments).result
                   ELSE tool_call.returns
        r2 == [r1 EXCEPT !.handled = @ + 1, !.USE_CTX = Some(ctx),
                         !.ctxs = IF ctx.id > @ THEN ctx.id ELSE @,
                         !.db_sessions = entered - with_session,
                         !.located = @ + (IF returns = "located" THEN 1
                                          ELSE 0)]
    IN  IF tool_name \notin pool
        THEN [r1 EXCEPT !.event = "KeyError"]
        ELSE IF r.agent = "search" /\ tool_name = "finish"
        THEN [r1 EXCEPT !.event = "finish"]
        ELSE IF returns = "raise"
        THEN return([r2 EXCEPT !.event = "raise"], ResultReject, "Tool error")
        ELSE IF returns = ResultReject
        THEN return([r2 EXCEPT !.event = "reject"], ResultReject, "eil")
        ELSE [r2 EXCEPT !.event = "handled",
                        !.tool_response =
                           Append(@, [role |-> "tool",
                                      tool_call_id |-> tool_call.id])]

dispatch_deaf(r) ==
    LET tool_call == Head(r.use_tools)
        tool_name == tool_call.name
        pool == IF r.agent = "sop" THEN SOP_TOOLS ELSE SPACE_SEARCH_TOOLS
        r1 == [r EXCEPT
                 !.use_tools = Tail(@),
                 !.call = tool_call,
                 !.sentinel = @ \/ tool_name = "submit_sop"
                                \/ (r.agent = "search" /\ tool_name = "finish"),
                 !.plain = @ /\ tool_name \notin {"submit_sop", "finish"}]
        ctx == IF r.agent = "search"
               THEN [id |-> IF r.USE_CTX = None THEN r.ctxs + 1
                            ELSE r.USE_CTX[1].id,
                     db_session |-> "closed",
                     located_content_blocks |->
                        (IF r.USE_CTX = None THEN 0
                         ELSE r.USE_CTX[1].located_content_blocks)
                        + (IF tool_call.returns = "located" THEN 1 ELSE 0)]
               ELSE r.USE_CTX[1]
        with_session == IF r.agent = "search" THEN 1 ELSE 0
        entered == r.db_sessions + with_session
        returns == IF tool_name = "submit_sop" /\ tool_name \in pool
                   THEN submit_sop_handler(ctx, tool_call.arguments).result
                   ELSE tool_call.returns
        r2 == [r1 EXCEPT !.handled = @ + 1, !.USE_CTX = Some(ctx),
                         !.ctxs = IF ctx.id > @ THEN ctx.id ELSE @,
                         !.db_sessions = entered - with_session,
                         !.located = @ + (IF returns = "located" THEN 1
                                          ELSE 0)]
    IN  IF tool_name \notin pool
        THEN return([r1 EXCEPT !.event = "KeyError"], ResultReject,
                    "Tool not found")
        ELSE IF r.agent = "search" /\ tool_name = "finish"
        THEN [r1 EXCEPT !.event = "finish"]
        ELSE IF returns = "raise"
        THEN [r2 EXCEPT !.event = "raise"]
        ELSE IF returns = ResultReject
        THEN [r2 EXCEPT !.event = "reject"]
        ELSE [r2 EXCEPT !.event = "handled",
                        !.tool_response =
                           Append(@, [role |-> "tool",
                                      tool_call_id |-> tool_call.id])]

dispatch_fresh(r) ==
    LET tool_call == Head(r.use_tools)
        tool_name == tool_call.name
        pool == IF r.agent = "sop" THEN SOP_TOOLS ELSE SPACE_SEARCH_TOOLS
        r1 == [r EXCEPT
                 !.use_tools = Tail(@),
                 !.call = tool_call,
                 !.sentinel = @ \/ tool_name = "submit_sop"
                                \/ (r.agent = "search" /\ tool_name = "finish"),
                 !.plain = @ /\ tool_name \notin {"submit_sop", "finish"}]
        ctx == IF r.agent = "search"
               THEN [id |-> r.ctxs + 1,
                     db_session |-> "closed",
                     located_content_blocks |->
                        IF tool_call.returns = "located" THEN 1 ELSE 0]
               ELSE r.USE_CTX[1]
        with_session == IF r.agent = "search" THEN 1 ELSE 0
        entered == r.db_sessions + with_session
        returns == IF tool_name = "submit_sop" /\ tool_name \in pool
                   THEN submit_sop_handler(ctx, tool_call.arguments).result
                   ELSE tool_call.returns
        r2 == [r1 EXCEPT !.handled = @ + 1, !.USE_CTX = Some(ctx),
                         !.ctxs = IF ctx.id > @ THEN ctx.id ELSE @,
                         !.db_sessions = entered - with_session,
                         !.located = @ + (IF returns = "located" THEN 1
                                          ELSE 0)]
    IN  IF tool_name \notin pool
        THEN return([r1 EXCEPT !.event = "KeyError"], ResultReject,
                    "Tool not found")
        ELSE IF r.agent = "search" /\ tool_name = "finish"
        THEN [r1 EXCEPT !.event = "finish"]
        ELSE IF returns = "raise"
        THEN return([r2 EXCEPT !.event = "raise"], ResultReject, "Tool error")
        ELSE IF returns = ResultReject
        THEN return([r2 EXCEPT !.event = "reject"], ResultReject, "eil")
        ELSE [r2 EXCEPT !.event = "handled",
                        !.tool_response =
                           Append(@, [role |-> "tool",
                                      tool_call_id |-> tool_call.id])]

dispatch_held(r) ==
    LET tool_call == Head(r.use_tools)
        tool_name == tool_call.name
        pool == IF r.agent = "sop" THEN SOP_TOOLS ELSE SPACE_SEARCH_TOOLS
        r1 == [r EXCEPT
                 !.use_tools = Tail(@),
                 !.call = tool_call,
                 !.sentinel = @ \/ tool_name = "submit_sop"
                                \/ (r.agent = "search" /\ tool_name = "finish"),
                 !.plain = @ /\ tool_name \notin {"submit_sop", "finish"}]
        ctx == IF r.agent = "search"
               THEN [id |-> IF r.USE_CTX = None THEN r.ctxs + 1
                            ELSE r.USE_CTX[1].id,
                     db_session |-> "closed",
                     located_content_blocks |->
                        (IF r.USE_CTX = None THEN 0
                         ELSE r.USE_CTX[1].located_content_blocks)
                        + (IF tool_call.returns = "located" THEN 1 ELSE 0)]
               ELSE r.USE_CTX[1]
        with_session == IF r.agent = "search" THEN 1 ELSE 0
        entered == r.db_sessions + with_session
        returns == IF tool_name = "submit_sop" /\ tool_name \in pool
                   THEN submit_sop_handler(ctx, tool_call.arguments).result
                   ELSE tool_call.returns
        r2 == [r1 EXCEPT !.handled = @ + 1, !.USE_CTX = Some(ctx),
                         !.ctxs = IF ctx.id > @ THEN ctx.id ELSE @,
                         !.db_sessions = entered - with_session,
                         !.located = @ + (IF returns = "located" THEN 1
                                          ELSE 0)]
    IN  IF tool_name \notin pool
        THEN \* KeyError
             return([r1 EXCEPT !.event = "KeyError"], ResultReject,
                    "Tool not found")
        ELSE IF r.agent = "search" /\ tool_name = "finish"
        THEN [r1 EXCEPT !.event = "finish"]
        ELSE IF returns = "raise"
        THEN return([r2 EXCEPT !.event = "raise", !.db_sessions = entered],
                    ResultReject, "Tool error")
        ELSE IF returns = ResultReject
        THEN return([r2 EXCEPT !.event = "reject"], ResultReject, "eil")
        ELSE [r2 EXCEPT !.event = "handled",
                        !.tool_response =
                           Append(@, [role |-> "tool",
                                      tool_call_id |-> tool_call.id])]

\* one pass of the body of `for tool_call in use_tools`
dispatch(r) ==
    LET tool_call == Head(r.use_tools)
        tool_name == tool_call.name
        pool == IF r.agent = "sop" THEN SOP_TOOLS ELSE SPACE_SEARCH_TOOLS
        r1 == [r EXCEPT
                 !.use_tools = Tail(@),
                 !.call = tool_call,
                 !.sentinel = @ \/ tool_name = "submit_sop"
                                \/ (r.agent = "search" /\ tool_name = "finish"),
                 !.plain = @ /\ tool_name \notin {"submit_sop", "finish"}]
        \* build_space_search_ctx: a new SpaceSearchCtx, or the one in use
        \* with the session of this call; the session is closed after the
        \* handler
        ctx == IF r.agent = "search"
               THEN [id |-> IF r.USE_CTX = None THEN r.ctxs + 1
                            ELSE r.USE_CTX[1].id,
                     db_session |-> "closed",
                     located_content_blocks |->
                        (IF r.USE_CTX = None THEN 0
                         ELSE r.USE_CTX[1].located_content_blocks)
                        + (IF tool_call.returns = "located" THEN 1 ELSE 0)]
               ELSE r.USE_CTX[1]
        \* async with DB_CLIENT.get_session_context() as db_session: the
        \* session is left when the block is left, by its end, by the
        \* exception of a handler or by a return; the loop of the SOP agent
        \* opens no session
        with_session == IF r.agent = "search" THEN 1 ELSE 0
        entered == r.db_sessions + with_session
        \* r = await tool.handler(USE_CTX, tool_arguments)
        returns == IF tool_name = "submit_sop" /\ tool_name \in pool
                   THEN submit_sop_handler(ctx, tool_call.arguments).result
                   ELSE tool_call.returns
        r2 == [r1 EXCEPT !.handled = @ + 1, !.USE_CTX = Some(ctx),
                         !.ctxs = IF ctx.id > @ THEN ctx.id ELSE @,
                         !.db_sessions = entered - with_session,
                         !.located = @ + (IF returns = "located" THEN 1
                                          ELSE 0)]
    IN  IF tool_name \notin pool
        THEN \* KeyError
             return([r1 EXCEPT !.event = "KeyError"], ResultReject,
                    "Tool not found")
        ELSE IF r.agent = "search" /\ tool_name = "finish"
        THEN [r1 EXCEPT !.event = "finish"]
        ELSE IF returns = "raise"
        THEN return([r2 EXCEPT !.event = "raise"], ResultReject, "Tool error")
        ELSE IF returns = ResultReject
        THEN return([r2 EXCEPT !.event = "reject"], ResultReject, "eil")
        ELSE [r2 EXCEPT !.event = "handled",
                        !.tool_response =
                           Append(@, [role |-> "tool",
                                      tool_call_id |-> tool_call.id])]

end_turn_again(r0) ==
    LET r == [r0 EXCEPT !.messages = @ \o r0.tool_response]
    IN  IF r.sentinel THEN [r EXCEPT !.pc = "end"]
        ELSE [r EXCEPT !.pc = "loop"]

end_turn_drop(r) ==
    IF r.sentinel THEN [r EXCEPT !.pc = "end"]
    ELSE IF /\ r.agent = "search"
            /\ r.USE_CTX[1].located_content_blocks >= r.limit
    THEN [r EXCEPT !.pc = "end", !.plain = FALSE]
    ELSE [r EXCEPT !.already_iterations = @ + 1,
                   !.pc = IF r.already_iterations + 1 < r.max_iterations
                          THEN "loop" ELSE "end"]

\* the lines after the for loop, and the test of the while loop
end_turn(r0) ==
    \* _messages.extend(tool_response)
    LET r == [r0 EXCEPT !.messages = @ \o r0.tool_response]
    IN  IF r.sentinel THEN [r EXCEPT !.pc = "end"]
        ELSE IF /\ r.agent = "search"
                /\ r.USE_CTX[1].located_content_blocks >= r.limit
        THEN [r EXCEPT !.pc = "end", !.plain = FALSE]
        ELSE [r EXCEPT !.already_iterations = @ + 1,
                       !.pc = IF r.already_iterations + 1 < r.max_iterations
                              THEN "loop" ELSE "end"]

\* the lines after the while loop
after_loop(r) ==
    IF r.agent = "sop" THEN return(r, ResultResolve, "None")
    ELSE IF r.USE_CTX = None
    THEN \* USE_CTX.db_session = None on None
         return(r, "AttributeError", "")
    ELSE return([r EXCEPT !.USE_CTX[1].db_session = "None"],
                ResultResolve, "USE_CTX")

(* -------------------- message history (SpecHistory) ------------------- *)
\* the longest history that is rewritten
MaxHistory == 4

\* process_messages(messages): new_messages is the list under construction;
\* orig[i] is the index in messages of the dict that new_messages[i] is, 0
\* for a dict the function created: appending to the content of a dict of
\* the caller changes the caller's history. The result is "ok" or the
\* exception raised; a content is a str or a list
RECURSIVE process_messages(_, _, _, _)
process_messages(messages, k, new_messages, orig) ==
    IF k > Len(messages)
    THEN [result |-> "ok", new_messages |-> new_messages,
          messages |-> messages]
    ELSE
    LET m == messages[k]
        n == Len(new_messages)
        tool_result == [type |-> "tool_result",
                        tool_use_id |-> m.tool_call_id,
                        content |-> m.content]
    IN  IF m.role = "tool" /\ "tool_call_id" \in DOMAIN m
        THEN IF n = 0
             THEN \* new_messages[-1] of an empty list
                  [result |-> "IndexError", new_messages |-> new_messages,
                   messages |-> messages]
             ELSE IF new_messages[n].role = "user"
             THEN IF "list" \notin DOMAIN new_messages[n].content
                  THEN \* str has no append
                       [result |-> "AttributeError",
                        new_messages |-> new_messages,
                        messages |-> messages]
                  ELSE process_messages(
                         IF orig[n] = 0 THEN messages
                         ELSE [messages EXCEPT ![orig[n]].content.list =
                                                  Append(@, tool_result)],
                         k + 1,
                         [new_messages EXCEPT ![n].content.list =
                                                 Append(@, tool_result)],
                         orig)
             ELSE process_messages(
                    messages, k + 1,
                    Append(new_messages,
                           [role |-> "user",
                            content |-> [list |-> <<tool_result>>]]),
                    Append(orig, 0))
        ELSE process_messages(messages, k + 1, Append(new_messages, m),
                              Append(orig, k))

(* --------------------- concurrent block writes (SpecRace) ------------- *)
\* the sessions (db_session) that call the block functions at the same time
BlockTxs == {"x1", "x2"}

\* a session that has not called a block function yet; row is the Block the
\* call added and flushed, rows the ToolSOP rows it added
IdleBlockTx ==
    [pc |-> "idle", op |-> "", id |-> 0, space_id |-> "", parent_id |-> None,
     sop_data |-> [preferences |-> "", tool_sops |-> <<>>],
     sort |-> 0, row |-> None, rows |-> {}, result |-> ""]

\* the keys (space_id, parent_id, sort) of ux_blocks_space_parent_sort that
\* the other sessions have inserted and not committed: an insert of an
\* equal key waits for the end of that transaction. Keys with a NULL
\* parent_id are never equal
PendingBlockKeys(t) ==
    {<<btx[u].row[1].space_id, btx[u].row[1].parent_id, btx[u].row[1].sort>> :
        u \in {v \in BlockTxs \ {t} :
                  /\ btx[v].row # None
                  /\ btx[v].row[1].parent_id # None}}

(* ------------------------------- Init --------------------------------- *)
Init ==
    /\ tasks = <<>>
    /\ nextId = 1
    /\ updates = 0
    /\ last = NoCall
    /\ hist = [s \in Sessions |-> NoHist]
    /\ db = <<>>
    /\ tx = [t \in Txs |-> IdleTx]
    /\ serial = <<>>
    /\ seen = NoRead
    /\ task_index = [k \in DOMAIN task_ids_index |-> [status |-> StatusPending]]
    /\ links = [k \in {task_ids_index[j] : j \in DOMAIN task_ids_index} |-> {}]
    /\ progresses =
         [k \in {task_ids_index[j] : j \in DOMAIN task_ids_index} |-> <<>>]
    /\ appLast = AppCall("none", None, None, ResultResolve, "")
    /\ run = IdleRun
    /\ mq = <<>>
    /\ sopLast = [deliveries |-> 0, body |-> None, outcome |-> ""]
    /\ history = <<>>
    /\ sendable = [result |-> "", history_messages |-> <<>>,
                   messages |-> <<>>]
    /\ btx = [t \in BlockTxs |-> IdleBlockTx]
    /\ index = <<>>
    /\ found = [space_id |-> "", limit |-> 0, threshold |-> None,
                items |-> <<>>]
    /\ spaces = Spaces
    /\ blocks = <<>>
    /\ nextBlock = 1
    /\ block_embeddings = {}
    /\ tool_sops = {}
    /\ tool_references = {"tool_a"}
    /\ blkLast = BlkCall("none", "", "", None, 0, ResultResolve, {}, 0)

(* ------------------------------ actions ------------------------------- *)
\* insert_task(db_session, session_id, after_order, data, status)
InsertTask(s, after_order, data, status) ==
    /\ nextId <= MaxTasks
    /\ IF after_order >= 0
       THEN /\ tasks' = insert_task(tasks, nextId, s, after_order, data, status)
            /\ nextId' = nextId + 1
            /\ last' = Call("insert", s, nextId, after_order, Some(status),
                            None, Some(data), None, "ok",
                            Some(NewTask(s, after_order, data, status)), FALSE)
            /\ hist' = [hist EXCEPT
                 ![s].inRange = @ /\ after_order <= Cardinality(TasksOf(tasks, s)),
                 ![s].headRun = IF after_order = 0 /\ @ >= 0 THEN @ + 1 ELSE -1]
       ELSE \* assert after_order >= 0 fails after the lock query
            /\ last' = Call("insert", s, 0, after_order, Some(status),
                            None, Some(data), None, "AssertionError", None,
                            FALSE)
            /\ hist' = [hist EXCEPT ![s].inRange = FALSE, ![s].headRun = -1]
            /\ UNCHANGED <<tasks, nextId,
                   raceVars>>
    /\ UNCHANGED <<updates, txVars, extVars>>

\* update_task(db_session, task_id, status, order, data [, patch_data]),
\* followed by the flush of the session
UpdateTask(id, status, order, data, patch) ==
    /\ updates < MaxUpdates
    /\ updates' = updates + 1
    /\ UNCHANGED <<nextId, txVars, extVars>>
    /\ IF patch # None
       THEN \* the signature has no patch_data parameter: the call raises
            /\ last' = Call("update", "A", id, 0, status, order, data, patch,
                            "TypeError", None, id \in DOMAIN tasks)
            /\ UNCHANGED <<tasks, hist,
                   raceVars>>
       ELSE LET r == update_task(tasks, id, status, order, data)
                flushed == uq_session_id_task_order(r.T)
            IN  /\ tasks' = IF flushed THEN r.T ELSE tasks
                /\ last' = Call("update", "A", id, 0, status, order, data,
                                patch,
                                IF flushed THEN r.result ELSE "IntegrityError",
                                r.ret, id \in DOMAIN tasks)
                /\ hist' = [s \in Sessions |->
                     IF id \in TasksOf(tasks, s)
                     THEN [hist[s] EXCEPT !.headRun = -1,
                                          !.inserts = @ /\ order = None]
                     ELSE hist[s]]

\* delete_task(db_session, task_id)
DeleteTask(id) ==
    /\ tasks' = delete_task(tasks, id).T
    /\ last' = Call("delete", "A", id, 0, None, None, None, None,
                    delete_task(tasks, id).result, None, id \in DOMAIN tasks)
    /\ hist' = [s \in Sessions |->
                  IF id \in TasksOf(tasks, s)
                  THEN [hist[s] EXCEPT !.headRun = -1, !.inserts = FALSE]
                  ELSE hist[s]]
    /\ UNCHANGED <<nextId, updates, txVars, extVars>>

\* the positions insert_task is called with: every position of session A,
\* one below and one above its range; the bystander session B only gets
\* head inserts
AfterOrders(s) ==
    IF s = "A" THEN -1..(Cardinality(TasksOf(tasks, s)) + 1) ELSE {0}

\* the (status, order, data) arguments update_task is called with
UpdateArgs ==
    {<<None, None, None>>,
     <<Some(StatusSuccess), None, None>>,
     <<None, Some(2), None>>,
     <<None, None, Some(DocNew)>>,
     <<Some(StatusSuccess), Some(2), Some(DocNew)>>}

Next ==
    \/ \E s \in Sessions : \E k \in AfterOrders(s) :
          InsertTask(s, k, DocInit, StatusPending)
    \/ \E id \in TaskIds, a \in UpdateArgs :
          UpdateTask(id, a[1], a[2], a[3], None)
    \/ \E id \in TaskIds, d \in {None, Some(DocNew)} :
          UpdateTask(id, None, None, d, Some(DocPatch))
    \/ \E id \in TaskIds : DeleteTask(id)

Spec == Init /\ [][Next]_vars

(* ------------------------- actions of SpecTx -------------------------- *)
\* transaction t sends the statement that takes its view to W, then flushes;
\* the statement waits for the row locks and for the unique index, and a
\* unique violation raises IntegrityError, which rolls the transaction back
Exec(t, W, pc, newId) ==
    LET wr == Written(View(t), W)
    IN  /\ wr \cap LockedByOthers(t) = {}
        /\ Conflicts(W, wr) \cap LockedByOthers(t) = {}
        /\ \A j \in wr : <<W[j].session_id, W[j].task_order>> \notin PendingKeys(t)
        /\ IF Conflicts(W, wr) # {}
           THEN /\ tx' = [tx EXCEPT ![t] =
                            [IdleTx EXCEPT !.result = "IntegrityError"]]
                /\ UNCHANGED db
           ELSE /\ tx' = [tx EXCEPT ![t].writes = WritesAfter(t, View(t), W),
                                    ![t].locks = @ \cup wr,
                                    ![t].newId = newId,
                                    ![t].pc = pc]
                /\ db' = flush(db, WritesAfter(t, View(t), W))

\* insert_task is called in a fresh transaction; the lock query starts
BeginInsert(t, s, after_order) ==
    /\ tx[t].pc = "idle"
    /\ Cardinality(DOMAIN db) + Cardinality(Active) < MaxTasks
    /\ tx' = [tx EXCEPT ![t] = [IdleTx EXCEPT !.pc = "lock", !.session = s,
                                              !.after = after_order,
                                              !.snap = lock_query(db, s)]]
    /\ UNCHANGED <<db, serial, seen, storeVars, extVars>>

\* the lock query returns once no other transaction holds one of its rows
LockRows(t) ==
    /\ tx[t].pc = "lock"
    /\ tx[t].snap \cap LockedByOthers(t) = {}
    /\ tx' = [tx EXCEPT ![t].locks = tx[t].snap, ![t].pc = "shift1"]
    /\ UNCHANGED <<db, serial, seen, storeVars, extVars>>

\* Step 1: the later tasks get negative orders
Shift1(t) ==
    /\ tx[t].pc = "shift1"
    /\ Exec(t, temp_update_stmt(View(t), tx[t].session, tx[t].after), "shift2", 0)
    /\ UNCHANGED <<serial, seen, storeVars, extVars>>

\* Step 2: they get their orders back, incremented by 1
Shift2(t) ==
    /\ tx[t].pc = "shift2"
    /\ Exec(t, final_update_stmt(View(t), tx[t].session), "insert", 0)
    /\ UNCHANGED <<serial, seen, storeVars, extVars>>

\* Step 3: the new task is added
InsertRow(t) ==
    /\ tx[t].pc = "insert"
    /\ LET id == FreshId
           V == View(t)
           W == [i \in DOMAIN V \cup {id} |->
                   IF i = id
                   THEN NewTask(tx[t].session, tx[t].after, DocInit,
                                StatusPending)
                   ELSE V[i]]
       IN  Exec(t, W, "commit", id)
    /\ UNCHANGED <<serial, seen, storeVars, extVars>>

\* the session context exits: the transaction commits
Commit(t) ==
    /\ tx[t].pc = "commit"
    /\ db' = View(t)
    /\ serial' = insert_task(serial, tx[t].newId, tx[t].session, tx[t].after,
                             DocInit, StatusPending)
    /\ tx' = [tx EXCEPT ![t] = [IdleTx EXCEPT !.result = "ok"]]
    /\ UNCHANGED <<seen, storeVars, extVars>>

\* another transaction reads the tasks of session s
FetchCurrentTasks(s) ==
    /\ seen' = [session |-> s,
                rows |-> fetch_current_tasks(db, s),
                expect |-> fetch_current_tasks(serial, s),
                during |-> \E t \in Txs : /\ tx[t].session = s
                                          /\ tx[t].pc \in {"shift2", "insert"}
                                          /\ tx[t].writes # <<>>]
    /\ UNCHANGED <<db, tx, serial, storeVars, extVars>>

NextTx ==
    \/ \E t \in Txs, s \in Sessions :
         \E k \in 0..Cardinality(TasksOf(db, s)) : BeginInsert(t, s, k)
    \/ \E t \in Txs : LockRows(t)
    \/ \E t \in Txs : Shift1(t)
    \/ \E t \in Txs : Shift2(t)
    \/ \E t \in Txs : InsertRow(t)
    \/ \E t \in Txs : Commit(t)
    \/ \E s \in Sessions : FetchCurrentTasks(s)

SpecTx == Init /\ [][NextTx]_vars

(* ------------------------ claims about Spec --------------------------- *)
\* the orders of session s are pairwise distinct and exactly 1..N
Contiguous(T, s) == OrdersOf(T, s) = 1..Cardinality(TasksOf(T, s))

\* dict.update: the named keys overwritten, every other key preserved
Merge(old, patch) ==
    [k \in DOMAIN old \cup DOMAIN patch |->
        IF k \in DOMAIN patch THEN patch[k] ELSE old[k]]

\* C1 as stated: after any sequence of in-range insert_task calls, update_task
\* calls and delete_task calls, the orders of a session are exactly 1..N.
C1_Original ==
    \A s \in Sessions : hist[s].inRange => Contiguous(tasks, s)

\* C1 amended: after any sequence of in-range insert_task calls and of
\* update_task calls that do not supply order (and no delete_task of one of
\* the session's tasks), the orders of a session are pairwise distinct and
\* exactly 1..N.
C1_OrdersContiguous ==
    \A s \in Sessions :
        (hist[s].inRange /\ hist[s].inserts) => Contiguous(tasks, s)

C1_Witness ==
    /\ last.op = "update" /\ last.result = "ok" /\ last.hit
    /\ \E s \in Sessions :
        /\ hist[s].inRange /\ hist[s].inserts
        /\ last.id \in TasksOf(tasks, s)
        /\ Cardinality(TasksOf(tasks, s)) = 3

\* C4: on a session with orders 1..N and 0 <= k <= N, insert_task(k) returns
\* a task of order k+1, keeps every order <= k, adds exactly 1 to every
\* order > k, and exactly one task has order k+1 afterwards.
C4_InsertShifts ==
    [][ (/\ last'.op = "insert" /\ last'.result = "ok"
         /\ Contiguous(tasks, last'.session)
         /\ last'.after <= Cardinality(TasksOf(tasks, last'.session)))
        => LET s == last'.session
               k == last'.after
           IN  /\ last'.ret[1].task_order = k + 1
               /\ tasks'[last'.id] = last'.ret[1]
               /\ \A i \in TasksOf(tasks, s) :
                    /\ i \in TasksOf(tasks', s)
                    /\ tasks'[i].task_order =
                         IF tasks[i].task_order <= k
                         THEN tasks[i].task_order
                         ELSE tasks[i].task_order + 1
               /\ Cardinality({i \in TasksOf(tasks', s) :
                                 tasks'[i].task_order = k + 1}) = 1 ]_vars

C4_Witness ==
    /\ last.op = "insert" /\ last.result = "ok" /\ last.after = 1
    /\ hist[last.session].inRange /\ hist[last.session].inserts
    /\ Cardinality(TasksOf(tasks, last.session)) = 3
    /\ \E i \in TasksOf(tasks, last.session) : tasks[i].task_order = 3

\* C5: after N successive insert_task(after_order = 0) calls on an empty
\* session the orders are exactly 1..N, the task of the last call has order
\* 1, and the tasks are ordered in reverse insertion order.
C5_HeadInserts ==
    \A s \in Sessions :
        hist[s].headRun >= 0 =>
            /\ Cardinality(TasksOf(tasks, s)) = hist[s].headRun
            /\ OrdersOf(tasks, s) = 1..hist[s].headRun
            /\ \A i, j \in TasksOf(tasks, s) :
                 i < j => tasks[i].task_order > tasks[j].task_order
            /\ (last.op = "insert" /\ last.session = s /\ last.result = "ok")
                 => tasks[last.id].task_order = 1

C5_Witness ==
    \E s \in Sessions :
        /\ hist[s].headRun = 3
        /\ last.op = "insert" /\ last.session = s

\* C7: update_task changes exactly the supplied fields among status, order
\* and data of its task, and leaves every other field and every other task
\* unchanged; with no field supplied the task is returned unchanged.
C7_UpdateFrame ==
    [][ (last'.op = "update" /\ last'.patch = None /\ last'.hit)
        => LET id == last'.id
               t == tasks[id]
               r == last'.ret[1]
           IN  /\ r.session_id = t.session_id
               /\ r.task_status = IF last'.status # None
                                  THEN last'.status[1] ELSE t.task_status
               /\ r.task_order = IF last'.order # None
                                 THEN last'.order[1] ELSE t.task_order
               /\ r.task_data = IF last'.data # None
                                THEN last'.data[1] ELSE t.task_data
               /\ DOMAIN tasks' = DOMAIN tasks
               /\ \A j \in DOMAIN tasks : j # id => tasks'[j] = tasks[j]
               /\ last'.result = "ok" => tasks'[id] = r ]_vars

C7_Witness ==
    /\ last.op = "update" /\ last.hit /\ last.result = "ok"
    /\ last.status # None /\ last.order = None /\ last.data = None
    /\ tasks[last.id].task_status = StatusSuccess
    /\ tasks[last.id].task_data = DocInit
    /\ Cardinality(DOMAIN tasks) >= 2

\* C8: the data document after update_task is the old document with the
\* patch_data keys overwritten when only patch_data is supplied, and exactly
\* data when data is supplied (patch_data is then ignored).
C8_PatchData ==
    [][ (last'.op = "update" /\ last'.hit /\ last'.result # "IntegrityError")
        => /\ last'.id \in DOMAIN tasks'
           /\ tasks'[last'.id].task_data =
                IF last'.data # None THEN last'.data[1]
                ELSE IF last'.patch # None
                     THEN Merge(tasks[last'.id].task_data, last'.patch[1])
                     ELSE tasks[last'.id].task_data ]_vars

\* C9: update_task on a task id that does not exist returns a not-found
\* rejection without a task value and modifies no task.
C9_UpdateMissing ==
    [][ (last'.op = "update" /\ last'.patch = None /\ ~last'.hit)
        => /\ last'.result = "reject"
           /\ last'.ret = None
           /\ tasks' = tasks ]_vars

C9_Witness ==
    /\ last.op = "update" /\ ~last.hit /\ last.patch = None
    /\ last.result = "reject" /\ last.status # None
    /\ tasks # <<>>

\* C10: delete_task of an id that does not exist (also one already deleted)
\* returns success and leaves the table unchanged; deleting twice equals
\* deleting once.
C10_DeleteIdempotent ==
    [][ last'.op = "delete"
        => /\ last'.result = "ok"
           /\ last'.id \notin DOMAIN tasks'
           /\ ~last'.hit => tasks' = tasks
           /\ delete_task(tasks', last'.id).result = "ok"
           /\ delete_task(tasks', last'.id).T = tasks' ]_vars

C10_Witness ==
    /\ last.op = "delete" /\ ~last.hit /\ last.result = "ok"
    /\ last.id < nextId
    /\ tasks # <<>>

\* C11: delete_task(id) removes exactly the task with that id: every other
\* task keeps its order, status and data, and the task count of the session
\* drops by exactly one.
C11_DeleteFrame ==
    [][ (last'.op = "delete" /\ last'.hit)
        => LET id == last'.id
               s == tasks[id].session_id
           IN  /\ DOMAIN tasks' = DOMAIN tasks \ {id}
               /\ \A j \in DOMAIN tasks \ {id} : tasks'[j] = tasks[j]
               /\ Cardinality(TasksOf(tasks', s))
                    = Cardinality(TasksOf(tasks, s)) - 1 ]_vars

C11_Witness ==
    /\ last.op = "delete" /\ last.hit /\ last.result = "ok"
    /\ nextId = 4
    /\ hist["B"] = NoHist
    /\ Cardinality(TasksOf(tasks, "A")) = 2
    /\ last.id \notin DOMAIN tasks

(* ----------------------- claims about SpecTx -------------------------- *)
\* t has sent a statement that waits for a lock held by another transaction
Waits(t) ==
    /\ tx[t].pc \in {"lock", "shift1", "shift2", "insert"}
    /\ ~ENABLED (LockRows(t) \/ Shift1(t) \/ Shift2(t) \/ InsertRow(t))

\* C2: two concurrent insert_task calls on one session are serialized by the
\* lock query: their lock-shift-insert sections never overlap, whatever rows
\* the session has when the lock is taken, and once both have committed no
\* two tasks of the session share an order.
C2_Serialized ==
    /\ \A t, u \in Txs :
         (t # u /\ InSection(t) /\ InSection(u))
            => tx[t].session # tx[u].session
    /\ Active = {} => uq_session_id_task_order(db)

\* C3: a read by another transaction sees only positive orders and sees the
\* session as whole insert_task calls left it: none or all of the effects of
\* an insert_task in progress.
C3_NoPartialRead ==
    /\ \A n \in 1..Len(seen.rows) : seen.rows[n].task_order > 0
    /\ seen.rows = seen.expect

C3_Witness ==
    /\ seen.during
    /\ Len(seen.rows) >= 1
    /\ \E t \in Txs :
         /\ tx[t].session = seen.session
         /\ \E i \in DOMAIN tx[t].writes \cap DOMAIN db :
              tx[t].writes[i].task_order # db[i].task_order

\* every lock of a transaction is on a row of the session it inserts into,
\* and a transaction only waits for a transaction on the same session
LocksOwnSession ==
    \A t \in Txs :
        /\ \A i \in tx[t].locks : View(t)[i].session_id = tx[t].session
        /\ Waits(t) => \E u \in Txs \ {t} :
                          tx[u].pc # "idle" /\ tx[u].session = tx[t].session

\* a committed row changes only when an insert_task on its session commits
OtherSessionsKept ==
    \A i \in DOMAIN db :
        /\ i \in DOMAIN db'
        /\ db'[i] # db[i] =>
             \E t \in Txs : /\ tx[t].pc = "commit" /\ tx'[t].pc = "idle"
                            /\ tx[t].session = db[i].session_id

\* C6: insert_task on session A leaves every task of every other session B
\* unchanged and takes no lock on B's rows, so it never waits for an
\* insert_task in progress on B.
C6_SessionIsolation == []LocksOwnSession /\ [][OtherSessionsKept]_vars

C6_Witness ==
    \E t, u \in Txs :
        /\ tx[t].pc = "commit" /\ tx[u].pc = "commit"
        /\ tx[t].session # tx[u].session
        /\ Cardinality(tx[t].locks) >= 2

(* ------------------------ actions of SpecAppend ----------------------- *)
\* one call of the append_messages_to_task tool by the task agent
AppendMessagesToTask(task_order, indexes, progress_note) ==
    /\ progress_note # None
         => \A id \in DOMAIN progresses : Len(progresses[id]) < MaxNotes
    /\ LET r == _append_messages_to_task_handler(
                    [task_ids_index |-> task_ids_index,
                     task_index |-> task_index,
                     message_ids_index |-> message_ids_index],
                    links, progresses, task_order, indexes, progress_note)
           status == IF task_order # None /\ task_order[1] \in DOMAIN task_index
                     THEN Some(task_index[task_order[1]].status)
                     ELSE None
       IN  /\ links' = r.L
           /\ progresses' = r.P
           /\ appLast' = AppCall("append", task_order, status, r.result, r.msg)
    /\ UNCHANGED <<task_index, storeVars, txVars, blkVars, idxVars, loopVars, msgVars,
                   raceVars>>

\* the update_task tool moves a task of the context to another status
UpdateTaskStatus(task_order, status) ==
    /\ task_order \in DOMAIN task_index
    /\ task_index' = [task_index EXCEPT ![task_order].status = status]
    /\ appLast' = AppCall("update", Some(task_order), Some(status),
                          ResultResolve, "")
    /\ UNCHANGED <<links, progresses, storeVars, txVars, blkVars, idxVars, loopVars, msgVars,
                   raceVars>>

\* the tool is called with no task order, with every order from one below to
\* one above the range, with message indexes in and out of range
NextAppend ==
    \/ \E o \in {None} \cup {Some(k) : k \in 0..(Len(task_ids_index) + 1)},
          m \in {<<>>, <<0>>, <<-1, Len(message_ids_index)>>},
          n \in {None, Some("n1")} :
          AppendMessagesToTask(o, m, n)
    \/ \E o \in DOMAIN task_ids_index :
       \E st \in {StatusPending, StatusRunning, StatusSuccess, StatusFailed} :
          UpdateTaskStatus(o, st)

SpecAppend == Init /\ [][NextAppend]_vars

(* ----------------------- claims about SpecAppend ---------------------- *)
\* a call of the tool on a task whose status is success or failed
AppendOnTerminal ==
    /\ appLast'.op = "append"
    /\ appLast'.status \in {Some(StatusSuccess), Some(StatusFailed)}

CreateBlock(type, space_id, par_block_id) ==
    /\ nextBlock <= MaxBlocks
    /\ LET r == create_block(blocks, spaces, nextBlock, type, space_id,
                             par_block_id)
       IN  /\ blocks' = r.B
           /\ nextBlock' = IF r.result = ResultResolve THEN nextBlock + 1
                           ELSE nextBlock
           /\ blkLast' = BlkCall("create", type, space_id, par_block_id,
                                 nextBlock, r.result, {}, 0)
    /\ UNCHANGED <<spaces, block_embeddings, tool_sops, tool_references,
                   storeVars, txVars, appVars, idxVars, loopVars, msgVars,
                   raceVars>>

WriteSopBlockToParent(space_id, par_block_id, sop_data) ==
    /\ nextBlock <= MaxBlocks
    /\ LET r == write_sop_block_to_parent(
                    blocks, spaces, tool_sops, tool_references, nextBlock,
                    space_id, par_block_id, sop_data)
       IN  /\ blocks' = r.B
           /\ tool_sops' = r.T
           /\ nextBlock' = IF r.B # blocks THEN nextBlock + 1 ELSE nextBlock
           /\ blkLast' = BlkCall("write_sop", "sop", space_id, par_block_id,
                                 nextBlock, r.result, {}, 0)
                          @@ [sop_data |-> sop_data]
    /\ UNCHANGED <<spaces, block_embeddings, tool_references,
                   storeVars, txVars, appVars, idxVars, loopVars, msgVars,
                   raceVars>>

\* a BlockEmbedding row is stored for a block, in the block's space
AddEmbedding(id) ==
    /\ id \in DOMAIN blocks
    /\ block_embeddings' = block_embeddings \cup
          {[block_id |-> id, space_id |-> blocks[id].space_id]}
    /\ blkLast' = BlkCall("embed", blocks[id].type, blocks[id].space_id,
                          blocks[id].parent_id, id, ResultResolve, {}, 0)
    /\ UNCHANGED <<spaces, blocks, nextBlock, tool_sops, tool_references,
                   storeVars, txVars, appVars, idxVars, loopVars, msgVars,
                   raceVars>>

\* session.delete(block)
DeleteBlock(id) ==
    /\ id \in DOMAIN blocks
    /\ LET c == cascade_delete(blocks, block_embeddings, tool_sops, {id})
       IN  /\ blocks' = c.B
           /\ block_embeddings' = c.E
           /\ tool_sops' = c.T
    /\ blkLast' = BlkCall("delete", blocks[id].type, blocks[id].space_id,
                          blocks[id].parent_id, id, ResultResolve,
                          DOMAIN blocks \ DOMAIN blocks',
                          Cardinality(block_embeddings \ block_embeddings')
                            + Cardinality(tool_sops \ tool_sops'))
    /\ UNCHANGED <<spaces, nextBlock, tool_references,
                   storeVars, txVars, appVars, idxVars, loopVars, msgVars,
                   raceVars>>

\* session.delete(space)
DeleteSpace(space_id) ==
    /\ space_id \in spaces
    /\ spaces' = spaces \ {space_id}
    /\ LET c == delete_space(blocks, block_embeddings, tool_sops, space_id)
       IN  /\ blocks' = c.B
           /\ block_embeddings' = c.E
           /\ tool_sops' = c.T
    /\ blkLast' = BlkCall("delete_space", "", space_id, None, 0,
                          ResultResolve, DOMAIN blocks \ DOMAIN blocks',
                          Cardinality(block_embeddings \ block_embeddings')
                            + Cardinality(tool_sops \ tool_sops'))
    /\ UNCHANGED <<nextBlock, tool_references, storeVars, txVars, appVars, idxVars, loopVars, msgVars,
                   raceVars>>

\* the parents a call names: none, a stored block, or an id not stored
ParentArgs == {None} \cup {Some(i) : i \in 1..nextBlock}

\* space S1 gets blocks of every type and SOP blocks, the second space S2
\* gets pages only; the types the table of blocks does not take are tried
\* without a parent and under block 1, a SOP that names a tool with no
\* ToolReference row and a SOP whose second step has a blank tool name are
\* written under block 1, and the blocks of S1 get embeddings
NextBlock ==
    \/ \E s \in Spaces, par \in ParentArgs : CreateBlock("page", s, par)
    \/ \E par \in ParentArgs : CreateBlock("text", "S1", par)
    \/ \E type \in {"folder", "image"}, par \in {None, Some(1)} :
          CreateBlock(type, "S1", par)
    \/ \E par \in ParentArgs,
          d \in {[preferences |-> "p", tool_sops |-> <<>>],
                 [preferences |-> " ", tool_sops |-> <<" Tool_A ">>]} :
          WriteSopBlockToParent("S1", par, d)
    \/ WriteSopBlockToParent("S1", None,
                             [preferences |-> " ", tool_sops |-> <<>>])
    \/ \E steps \in {<<"tool_b">>, <<"tool_a", " ">>} :
          WriteSopBlockToParent("S1", Some(1),
                                [preferences |-> "p", tool_sops |-> steps])
    \/ \E id \in {i \in DOMAIN blocks : blocks[i].space_id = "S1"} :
          AddEmbedding(id)
    \/ \E id \in BlockIds : DeleteBlock(id)
    \/ \E s \in Spaces : DeleteSpace(s)

SpecBlock == Init /\ [][NextBlock]_vars

SortsDistinct ==
    \A i, j \in DOMAIN blocks :
       (/\ i # j
        /\ blocks[i].space_id = blocks[j].space_id
        /\ blocks[i].parent_id = blocks[j].parent_id)
       => blocks[i].sort # blocks[j].sort

\* a stored block got sort 0 if its (space, parent) had no block, and the
\* maximum sort of its siblings plus 1 otherwise
SortIsNext ==
    (/\ blkLast'.op \in {"create", "write_sop"}
     /\ blkLast'.id \in DOMAIN blocks' \ DOMAIN blocks)
    => LET new == blocks'[blkLast'.id]
           sib == {i \in DOMAIN blocks :
                     /\ blocks[i].space_id = new.space_id
                     /\ blocks[i].parent_id = new.parent_id}
       IN  /\ sib = {} => new.sort = 0
           /\ sib # {} => /\ \E i \in sib : new.sort = blocks[i].sort + 1
                          /\ \A i \in sib : new.sort > blocks[i].sort

\* C14: after any sequence of block creations (and deletions), the sort
\* values of the blocks that share a (space, parent) are pairwise distinct;
\* the first block under a (space, parent) gets sort 0 and every later one
\* the maximum sort of its siblings plus 1.
C14_SortsDistinct == []SortsDistinct /\ [][SortIsNext]_vars

C14_Witness ==
    /\ blkLast.op = "create"
    /\ blkLast.result = ResultResolve
    /\ \E i, j \in DOMAIN blocks :
          /\ j = blkLast.id
          /\ blocks[i].space_id = blocks[j].space_id
          /\ blocks[i].parent_id = blocks[j].parent_id
          /\ blocks[i].sort = 0
          /\ blocks[j].sort = 1
          /\ blocks[j].parent_id # None

\* C15 as stated: a page or folder block can be created and stored with or
\* without a parent, a text or sop block if and only if a parent is given,
\* and any other type is rejected (for calls that name an existing space and
\* no parent or an existing one).
C15_TypeTable ==
    [][ (/\ blkLast'.op = "create"
         /\ blkLast'.space_id \in spaces
         /\ blkLast'.parent_id # None
              => blkLast'.parent_id[1] \in DOMAIN blocks)
        => ( (/\ blkLast'.result = ResultResolve
              /\ blkLast'.id \in DOMAIN blocks')
             <=> \/ blkLast'.type \in {"page", "folder"}
                 \/ /\ blkLast'.type \in {"text", "sop"}
                    /\ blkLast'.parent_id # None ) ]_vars

\* the blocks above block d, up to its root
RECURSIVE AncestorsOf(_, _)
AncestorsOf(B, d) ==
    IF d \notin DOMAIN B \/ B[d].parent_id = None THEN {}
    ELSE {B[d].parent_id[1]} \cup AncestorsOf(B, B[d].parent_id[1])

\* C16: after the deletion of block id, no block that was a descendant of
\* id at any depth remains, and no block_embeddings or tool_sops row that
\* referenced the deleted block or one of its descendants remains.
C16_DeleteCascades ==
    [][ blkLast'.op = "delete"
        => LET id == blkLast'.id
               under == {id} \cup
                        {d \in DOMAIN blocks : id \in AncestorsOf(blocks, d)}
           IN  /\ under \cap DOMAIN blocks' = {}
               /\ \A e \in block_embeddings' : e.block_id \notin under
               /\ \A t \in tool_sops' : t.sop_block_id \notin under ]_vars

C16_Witness ==
    /\ blkLast.op = "delete"
    /\ Cardinality(blkLast.gone) = 3
    /\ blkLast.rows >= 2
    /\ blkLast.parent_id = None
    /\ blocks = <<>>

\* C17 as stated: after a space is deleted, no block and no block embedding
\* with that space id remains, and the blocks and embeddings of the other
\* spaces are unchanged.
C17_SpaceDelete ==
    [][ blkLast'.op = "delete_space"
        => LET sid == blkLast'.space_id
           IN  /\ \A i \in DOMAIN blocks' : blocks'[i].space_id # sid
               /\ \A e \in block_embeddings' : e.space_id # sid
               /\ \A i \in DOMAIN blocks :
                     blocks[i].space_id # sid
                       => i \in DOMAIN blocks' /\ blocks'[i] = blocks[i]
               /\ \A e \in block_embeddings :
                     e.space_id # sid => e \in block_embeddings' ]_vars

\* C28 as stated: tool names are interned per project case-insensitively:
\* every ToolReference name is lower-case, and after a SOP is persisted
\* every tool it names has its ToolReference row, under the lower-cased
\* name, which the ToolSOP row of the step links to; a SOP naming an
\* existing tool in any letter case reuses that row.
C28_Interned ==
    /\ \A n \in tool_references : lower(n) = n
    /\ (/\ blkLast.op = "write_sop"
        /\ blkLast.result \notin {ResultReject, "ValueError",
                                  "IntegrityError"})
       => LET steps == blkLast.sop_data.tool_sops
          IN  \A k \in DOMAIN steps :
                 /\ lower(strip(steps[k])) \in tool_references
                 /\ \E t \in tool_sops :
                       /\ t.sop_block_id = blkLast.id
                       /\ t.step = k
                       /\ t.tool_reference_id = lower(strip(steps[k]))

C37_RejectPersistsNothing ==
    [][(/\ blkLast'.op = "write_sop"
        /\ blkLast' # blkLast
        /\ blkLast'.result = ResultReject)
       => /\ blocks' = blocks
          /\ tool_sops' = tool_sops
          /\ tool_references' = tool_references]_vars

(* ------------------------ actions of SpecSearch ----------------------- *)
\* a content block with its BlockEmbedding row is stored in a space
AddBlockEmbedding(space_id, embedding, props) ==
    /\ Len(index) < MaxEmbeddings
    /\ index' = Append(index, [space_id |-> space_id,
                               embedding |-> embedding, props |-> props])
    /\ UNCHANGED <<found, storeVars, txVars, appVars, blkVars, loopVars, msgVars,
                   raceVars>>

\* GET .../experience_search in mode "fast"
SearchSpace(space_id, limit, semantic_threshold) ==
    /\ found' = [space_id |-> space_id, limit |-> limit,
                 threshold |-> semantic_threshold,
                 items |-> semantic_grep_search_func(
                               index, semantic_threshold, space_id, limit)]
    /\ UNCHANGED <<index, storeVars, txVars, appVars, blkVars, loopVars, msgVars,
                   raceVars>>

NextSearch ==
    \/ \E s \in Spaces, v \in DOMAIN cosine_distance,
          props \in {None, Some("content")} : AddBlockEmbedding(s, v, props)
    \/ \E s \in Spaces, limit \in 1..2, t \in {None, Some(50)} :
          SearchSpace(s, limit, t)

SpecSearch == Init /\ [][NextSearch]_vars

(* ----------------------- claims about SpecSearch ---------------------- *)
\* C18: a search returns at most topK results, each with a distance of at
\* most maxDistance (the configured default when none is given), in
\* ascending order of distance, and every returned block is in the space
\* that was searched.
C18_SearchBounded ==
    LET maxDistance ==
          IF found.threshold # None THEN found.threshold[1]
          ELSE block_embedding_search_cosine_distance_threshold
    IN  /\ Len(found.items) <= found.limit
        /\ \A i \in DOMAIN found.items :
              /\ found.items[i].distance <= maxDistance
              /\ found.items[i].block_id \in DOMAIN index
              /\ index[found.items[i].block_id].space_id = found.space_id
              /\ found.items[i].distance
                   = cosine_distance[index[found.items[i].block_id].embedding]
        /\ \A i, j \in DOMAIN found.items :
              i < j => found.items[i].distance <= found.items[j].distance

C18_Witness ==
    /\ found.limit = 2
    /\ found.threshold = None
    /\ Len(found.items) = 2
    /\ found.items[1].distance < found.items[2].distance
    /\ Len(index) = 3
    /\ \E i \in DOMAIN index :
          /\ index[i].space_id = found.space_id
          /\ index[i].props # None
          /\ cosine_distance[index[i].embedding] > found.items[2].distance

(* ------------------------- actions of SpecLoop ------------------------ *)
\* sop_agent_curd(..., current_task, ..., max_iterations) or
\* space_agent_search(..., limit, max_iterations) is called; the SOP agent
\* packs the task before its loop
StartRun(agent, current_task, max_iterations, limit) ==
    /\ run.pc = "idle"
    /\ run' = LET r == [IdleRun EXCEPT !.agent = agent, !.pc = "loop",
                                       !.max_iterations = max_iterations,
                                       !.limit = limit,
                                       !.messages = <<[role |-> "user"]>>]
              IN  IF /\ agent = "sop"
                     /\ pack_task_data(current_task) = "AttributeError"
                  THEN return(r, "AttributeError", "")
                  ELSE r
    /\ UNCHANGED <<mq, sopLast, storeVars, txVars, appVars, blkVars, idxVars,
                   msgVars,
                   raceVars>>

\* process_space_task(project_config, project_id, space_id, session_id,
\* task): a task that is not success, or whose messages cannot be fetched,
\* is skipped; otherwise sop_agent_curd is called with task.id as its
\* current_task, and the exception of the agent ends the handler before
\* the lines that follow the call
ProcessSpaceTask(status, fetched, max_iterations) ==
    IF status # StatusSuccess \/ ~fetched
    THEN /\ run.pc = "idle"
         /\ run' = return([IdleRun EXCEPT !.event = "skipped"], "None", "")
         /\ UNCHANGED <<mq, sopLast, storeVars, txVars, appVars, blkVars,
                        idxVars, msgVars,
                   raceVars>>
    ELSE StartRun("sop", [type |-> "UUID", id |-> "t1"], max_iterations, 0)

\* the completion is called and answers with llm_return
LlmComplete(llm_return) ==
    /\ run.pc = "loop"
    /\ run.already_iterations < run.max_iterations
    /\ run' = llm_complete(run, llm_return)
    /\ UNCHANGED <<mq, sopLast, storeVars, txVars, appVars, blkVars, idxVars,
                   msgVars,
                   raceVars>>

\* the next tool call of the turn is dispatched; the submit_sop handler
\* publishes to the exchange
Dispatch ==
    /\ run.pc = "tools"
    /\ run.use_tools # <<>>
    /\ run' = dispatch(run)
    /\ mq' = IF run.agent = "sop" /\ Head(run.use_tools).name = "submit_sop"
             THEN mq \o submit_sop_handler(
                           run.USE_CTX[1],
                           Head(run.use_tools).arguments).publish
             ELSE mq
    /\ UNCHANGED <<sopLast, storeVars, txVars, appVars, blkVars, idxVars,
                   msgVars,
                   raceVars>>

\* the turn is over: the run stops or goes round the loop
EndTurn ==
    /\ run.pc = "tools"
    /\ run.use_tools = <<>>
    /\ run' = end_turn(run)
    /\ UNCHANGED <<mq, sopLast, storeVars, txVars, appVars, blkVars, idxVars,
                   msgVars,
                   raceVars>>

\* the run leaves the loop and returns
AfterLoop ==
    /\ run.pc = "end"
    /\ run' = after_loop(run)
    /\ UNCHANGED <<mq, sopLast, storeVars, txVars, appVars, blkVars, idxVars,
                   msgVars,
                   raceVars>>

\* space_sop_complete_task(body, message): message i of the exchange is
\* delivered (a message may be delivered again). The task and its session
\* are fetched; with a linked space process_sop_complete calls
\* construct_agent_curd, which reads sop_data, logs and prints, and writes
\* no row
SpaceSopCompleteTask(i, task_found, space_linked) ==
    /\ i \in 1..Len(mq)
    /\ sopLast.deliveries < MaxDeliveries
    /\ sopLast' = [deliveries |-> sopLast.deliveries + 1,
                   body |-> Some(mq[i]),
                   outcome |-> IF ~task_found THEN "task_not_found"
                               ELSE IF ~space_linked THEN "no_linked_space"
                               ELSE "process_sop_complete"]
    /\ UNCHANGED <<run, mq, storeVars, txVars, appVars, blkVars, idxVars,
                   msgVars,
                   raceVars>>

\* the answers of the completion: an error, no tool calls, or a turn of
\* tool calls, each with its arguments and, for the handlers that are not
\* part of the model, what the handler will return
Responses(agent, turn) ==
    LET call(name, arguments, returns) ==
            [name |-> name, arguments |-> arguments, returns |-> returns]
        think == call("report_thinking", [thinking |-> "t"], ResultResolve)
        submit(prefs, steps) ==
            call("submit_sop",
                 [use_when |-> "u", preferences |-> prefs,
                  tool_sops |-> steps], "")
        turns == {<<>>, <<think>>, <<think, think>>,
                  <<call("no_such_tool", [thinking |-> "t"], ResultResolve),
                    think>>,
                  <<call("report_thinking", [thinking |-> "t"],
                         ResultReject)>>,
                  <<call("report_thinking", [thinking |-> "t"], "raise"),
                    think>>}
                 \cup (IF agent = "search"
                       THEN {<<call("finish", [thinking |-> "t"], "")>>,
                             <<think,
                               call("finish", [thinking |-> "t"], "")>>,
                             <<call("finish", [thinking |-> "t"], ""),
                               think>>,
                             <<call("search_content", [thinking |-> "t"],
                                    "located")>>,
                             <<call("search_content", [thinking |-> "t"],
                                    "located"), think>>}
                       ELSE {<<submit(" ", <<>>)>>,
                             <<think, submit("p", <<"tool_a">>)>>,
                             <<submit("p", <<"tool_a">>),
                               submit(" ", <<>>)>>,
                             <<submit("p", <<"tool_a">>),
                               submit("q", <<"tool_b">>), think>>,
                             <<call("submit_sop", [use_when |-> "u"], ""),
                               think>>})
        \* tool_call.id: the calls of a response carry ids of their own
        with_ids(t) == [i \in DOMAIN t |-> t[i] @@ [id |-> <<turn, i>>]]
    IN  {[eil |-> TRUE, tool_calls |-> <<>>]}
        \cup {[eil |-> FALSE, tool_calls |-> with_ids(t)] : t \in turns}

NextLoop ==
    \/ \E n \in 1..MaxIterations :
          StartRun("sop", [type |-> "TaskSchema", id |-> "t1"], n, 0)
    \/ \E n \in 1..MaxIterations, limit \in 1..2 :
          StartRun("search", [type |-> "none"], n, limit)
    \/ \E status \in {StatusSuccess, StatusRunning}, fetched \in BOOLEAN :
          ProcessSpaceTask(status, fetched, MaxIterations)
    \/ \E llm_return \in Responses(run.agent, run.completions + 1) :
          LlmComplete(llm_return)
    \/ Dispatch
    \/ EndTurn
    \/ AfterLoop
    \/ \E i \in 1..MaxDeliveries, task_found \in BOOLEAN,
          space_linked \in BOOLEAN :
          SpaceSopCompleteTask(i, task_found, space_linked)

SpecLoop == Init /\ [][NextLoop]_vars

\* a run that was started goes on until it returns
SpecLoopFair == SpecLoop /\ WF_vars(NextLoop)

(* ------------------------ claims about SpecLoop ----------------------- *)
\* no run calls the completion more than max_iterations times, and a run
\* that has returned after tool calls that all succeeded, none of them the
\* finish / submit_sop tool, with no stop condition, called it exactly
\* max_iterations times and returned a success result
IterationBudget ==
    /\ run.completions <= run.max_iterations
    /\ (run.pc = "done" /\ run.plain)
         => /\ run.completions = run.max_iterations
            /\ run.already_iterations = run.max_iterations
            /\ run.result = ResultResolve

\* C19: for every n >= 1, a run with max_iterations = n in which the model
\* always returns tool calls that succeed and never include the finish /
\* submit_sop tool (and no stop condition holds) calls the completion
\* exactly n times and then terminates; no run calls it more than
\* max_iterations times.
C19_IterationBudget == []IterationBudget /\ <>(run.pc = "done")

C19_Witness ==
    /\ run.pc = "done"
    /\ run.plain
    /\ run.agent = "search"
    /\ run.max_iterations = MaxIterations
    /\ run.completions = MaxIterations
    /\ run.handled >= MaxIterations

\* C20 as stated: a run in which the first response carries no tool calls
\* terminates successfully after exactly one completion call: no tool is
\* dispatched and a success result with the Context of the run is returned.
C20_NoToolCalls ==
    (run.pc = "done" /\ run.quiet)
    => /\ run.completions = 1
       /\ run.handled = 0
       /\ run.result = ResultResolve
       /\ run.data = "USE_CTX"

\* a dispatch of a tool call that names a tool outside the pool of the run
\* ends the run with an error result, runs no handler and calls no
\* completion
UnknownToolStops ==
    (/\ run.pc = "tools"
     /\ run.use_tools # <<>>
     /\ Head(run.use_tools).name \notin
           (IF run.agent = "sop" THEN SOP_TOOLS ELSE SPACE_SEARCH_TOOLS)
     /\ run' # run)
    => /\ run'.pc = "done"
       /\ run'.result = ResultReject
       /\ run'.handled = run.handled
       /\ run'.completions = run.completions
       /\ run'.use_tools = Tail(run.use_tools)

\* C21: if a tool call names a tool that is not registered in the pool, the
\* run terminates immediately with an error result: no handler runs for
\* that call, no later call of the same turn is dispatched, and the
\* completion is never called again.
C21_UnknownTool ==
    [][UnknownToolStops /\ (run.pc = "done" => run' = run)]_vars

C21_Witness ==
    /\ run.pc = "done"
    /\ run.event = "KeyError"
    /\ run.result = ResultReject
    /\ run.use_tools # <<>>
    /\ run.handled = 0
    /\ run.completions < run.max_iterations

\* C22: if a tool handler returns an error result or raises, the run
\* terminates immediately with an error result: no remaining call of that
\* turn is dispatched and no further completion call occurs.
C22_HandlerError ==
    /\ [](run.event \in {"reject", "raise"}
            => run.pc = "done" /\ run.result = ResultReject)
    /\ [][run.pc = "done"
            => /\ run'.use_tools = run.use_tools
               /\ run'.handled = run.handled
               /\ run'.completions = run.completions]_vars

C22_Witness ==
    /\ run.pc = "done"
    /\ run.event = "raise"
    /\ run.result = ResultReject
    /\ run.use_tools # <<>>
    /\ run.completions < run.max_iterations

\* C23: if the completion returns an error, the run ends at once with that
\* error: no tool is dispatched in that iteration and the completion is not
\* called again.
C23_CompletionError ==
    /\ [](run.event = "llm_error"
            => /\ run.pc = "done"
               /\ run.result = ResultReject
               /\ run.data = "eil")
    /\ [][(run'.event = "llm_error" /\ run' # run)
            => /\ run'.completions = run.completions + 1
               /\ run'.handled = run.handled]_vars
    /\ [][run.pc = "done"
            => run'.pc = "done" /\ run'.completions = run.completions]_vars

C23_Witness ==
    /\ run.pc = "done"
    /\ run.event = "llm_error"
    /\ run.completions = 2
    /\ run.handled >= 1
    /\ run.max_iterations = MaxIterations

\* C24 as stated: a run that reaches max_iterations without any terminal
\* condition reports a success outcome, and the Context accumulated by the
\* tool calls already executed is returned.
C24_Original ==
    (run.pc = "done" /\ run.plain)
    => run.result = ResultResolve /\ run.data = "USE_CTX"

\* C24, amended: a run that reaches max_iterations without any terminal
\* condition reports a success outcome; the search agent returns its
\* Context, with every block the executed tool calls located, and the SOP
\* agent returns a success Result that carries no value.
C24_Boundary ==
    (run.pc = "done" /\ run.plain)
    => /\ run.result = ResultResolve
       /\ run.completions = run.max_iterations
       /\ IF run.agent = "search"
          THEN /\ run.data = "USE_CTX"
               /\ run.USE_CTX # None
               /\ run.USE_CTX[1].located_content_blocks = run.located
          ELSE run.data = "None"

C24_Witness ==
    /\ run.pc = "done"
    /\ run.plain
    /\ run.agent = "search"
    /\ run.max_iterations >= 2
    /\ run.located >= 1
    /\ run.data = "USE_CTX"

\* C25 as stated: every agent run returns a success / error Result to its
\* caller on every termination path and never lets an exception escape,
\* including runs that terminate before any tool was dispatched.
C25_AlwaysResult ==
    (run.pc = "done" /\ run.agent # "")
    => run.result \in {ResultResolve, ResultReject}

\* a submit_sop call with no procedure step and blank preferences
EmptySubmit(call) ==
    /\ call.name = "submit_sop"
    /\ {"preferences", "tool_sops"} \subseteq DOMAIN call.arguments
    /\ call.arguments.tool_sops = <<>>
    /\ call.arguments.preferences \in {"", " "}

C27_Persisted ==
    sopLast.outcome = "process_sop_complete"
    => \E b \in DOMAIN blocks :
          /\ blocks[b].type = "sop"
          /\ LET steps == sopLast.body[1].sop_data.tool_sops
             IN  \A k \in DOMAIN steps :
                    /\ lower(strip(steps[k])) \in tool_references
                    /\ \E t \in tool_sops :
                          /\ t.sop_block_id = b
                          /\ t.step = k
                          /\ t.tool_reference_id = lower(strip(steps[k]))

\* the calls of the assistant message that the turn under dispatch began
\* with: no tool response is added to _messages before the turn is over
TurnCalls == run.messages[Len(run.messages)].tool_calls

\* what the Context of the run has located so far
LocatedSoFar(r) ==
    IF r.USE_CTX = None THEN 0 ELSE r.USE_CTX[1].located_content_blocks

\* C31: within one model turn the tool calls are dispatched strictly one at
\* a time in the order the model returned them: call i+1 is dispatched only
\* after the handler of call i has returned, and every state change made by
\* call i (the blocks it located, the events it published) is there when
\* call i+1 is dispatched.
C31_Sequential ==
    [][(run.pc = "tools" /\ run.use_tools # <<>> /\ run' # run)
        => LET i == Len(TurnCalls) - Len(run.use_tools) + 1
           IN  /\ run'.call.id = TurnCalls[i].id
               /\ run'.use_tools = Tail(run.use_tools)
               /\ run'.handled \in {run.handled, run.handled + 1}
               /\ Len(run'.tool_response) \in
                     {Len(run.tool_response), Len(run.tool_response) + 1}
               /\ (run.agent = "search" /\ run'.handled = run.handled + 1)
                     => LocatedSoFar(run') =
                           LocatedSoFar(run)
                           + (IF run'.call.returns = "located" THEN 1 ELSE 0)
               /\ Len(mq') >= Len(mq)
               /\ SubSeq(mq', 1, Len(mq)) = mq]_vars

C31_Witness ==
    /\ run.agent = "search"
    /\ run.pc = "tools"
    /\ run.use_tools = <<>>
    /\ Len(TurnCalls) = 2
    /\ Len(run.tool_response) = 2
    /\ run.call.name = "report_thinking"
    /\ run.call.id = TurnCalls[2].id
    /\ LocatedSoFar(run) = 1

\* a turn of the history is over when its responses were added: the run is
\* about to call the completion again or has left the loop
TurnsOver == run.pc \in {"loop", "end"}

\* the messages that follow the assistant message at k up to the next
\* assistant message
RECURSIVE ResponsesAfter(_, _)
ResponsesAfter(h, k) ==
    IF k + 1 > Len(h) \/ h[k + 1].role # "tool" THEN <<>>
    ELSE <<h[k + 1].tool_call_id>> \o ResponsesAfter(h, k + 1)

RECURSIVE CallIds(_, _)
CallIds(calls, skipped) ==
    IF calls = <<>> THEN <<>>
    ELSE (IF Head(calls).name \in skipped THEN <<>> ELSE <<Head(calls).id>>)
         \o CallIds(Tail(calls), skipped)

\* C32 as stated: for every tool call of a turn that is dispatched without
\* aborting the run (the finish sentinel included), exactly one tool-response
\* entry carrying that call's id is appended to the history, after the
\* assistant turn and in the order of the calls, so that every tool call
\* recorded in the history has exactly one matching tool response.
C32_Original ==
    TurnsOver
    => \A k \in DOMAIN run.messages :
          run.messages[k].role = "assistant"
          => ResponsesAfter(run.messages, k)
                = CallIds(run.messages[k].tool_calls, {})

\* C32, amended: for every tool call of a turn that ran to its end whose
\* handler was invoked, exactly one tool-response entry carrying that
\* call's id is appended to the history, after the assistant turn and in the
\* order of the calls; the finish call of the search agent invokes no handler
\* and gets no tool response, while the submit_sop call of the SOP agent gets
\* one.
C32_Responses ==
    TurnsOver
    => /\ \A k \in DOMAIN run.messages :
             run.messages[k].role = "assistant"
             => ResponsesAfter(run.messages, k)
                   = CallIds(run.messages[k].tool_calls,
                             IF run.agent = "search" THEN {"finish"} ELSE {})
       /\ run.messages[1].role = "user"
       /\ \A k \in DOMAIN run.messages :
             run.messages[k].role = "tool"
             => k > 1 /\ run.messages[k - 1].role \in {"assistant", "tool"}

C32_Witness ==
    /\ run.agent = "search"
    /\ run.pc = "end"
    /\ run.event = "finish"
    /\ Len(run.messages) = 3
    /\ run.messages[2].role = "assistant"
    /\ Len(run.messages[2].tool_calls) = 2
    /\ run.messages[3].role = "tool"
    /\ run.messages[3].tool_call_id = run.messages[2].tool_calls[1].id

\* C33 as stated: when the sentinel tool (finish for the search agent,
\* submit_sop for the SOP agent) is among a turn's tool calls, every other
\* call of that turn is still dispatched in order, and after that turn the
\* run terminates successfully without another completion call.
C33_SentinelTurn ==
    /\ []((run.sentinel /\ run.pc = "tools" /\ run.use_tools = <<>>)
            => Len(run.tool_response)
                  = Len(CallIds(TurnCalls,
                                IF run.agent = "search" THEN {"finish"}
                                ELSE {})))
    /\ []((/\ run.sentinel
           /\ run.pc = "done"
           /\ run.use_tools = <<>>
           /\ run.event \in {"handled", "finish"})
            => run.result = ResultResolve)
    /\ [][run.sentinel => run'.completions = run.completions]_vars

\* C34 as stated: when a search run has ended, by any termination path, the
\* data-session handle held in the run's Context has been cleared.
C34_Cleared ==
    (run.agent = "search" /\ run.pc = "done" /\ run.USE_CTX # None)
    => run.USE_CTX[1].db_session = "None"

\* C35: no data-layer session is open while a run is suspended in a
\* completion call: every session opened for a tool dispatch or for loading
\* the input of the run has been left before the next completion call and
\* when the run has returned, on the success, handler-error and unknown-tool
\* paths alike.
C35_NoOpenSession ==
    /\ run.db_sessions = 0
    /\ (run.agent = "search" /\ run.USE_CTX # None)
          => run.USE_CTX[1].db_session \in {"closed", "None"}

C35_Witness ==
    /\ run.agent = "search"
    /\ run.pc = "loop"
    /\ run.completions = 1
    /\ run.handled = 2
    /\ run.already_iterations = 1
    /\ run.USE_CTX # None
    /\ run.db_sessions = 0

C38_OneEvent ==
    run.agent = "sop" => Len(mq) <= 1

(* ------------------------ actions of SpecHistory ---------------------- *)
\* a message is appended to the history (_messages.append / extend in the
\* agent loops, or any caller of the completion)
AppendHistory(m) ==
    /\ Len(history) < MaxHistory
    /\ history' = Append(history, m)
    /\ UNCHANGED <<sendable, storeVars, txVars, appVars, blkVars, idxVars,
                   loopVars,
                   raceVars>>

\* anthropic_complete(history_messages = history): the messages of the
\* request are process_messages(messages); the dicts of the history are the
\* caller's own. One request is followed per behaviour
AnthropicComplete ==
    /\ history # <<>>
    /\ sendable.result = ""
    /\ LET r == process_messages(history, 1, <<>>, <<>>)
       IN  /\ sendable' = [result |-> r.result,
                           history_messages |-> history,
                           messages |-> r.new_messages]
           /\ history' = r.messages
    /\ UNCHANGED <<storeVars, txVars, appVars, blkVars, idxVars, loopVars,
                   raceVars>>

\* the messages of a history: a user turn with a str or a list content, an
\* assistant turn, and the tool results of the calls c1 and c2
NextHistory ==
    \/ \E m \in {[role |-> "user", content |-> [str |-> "q"]],
                 [role |-> "user",
                  content |-> [list |-> <<[type |-> "text", text |-> "q"]>>]],
                 [role |-> "assistant", content |-> [str |-> "a"]],
                 [role |-> "tool", tool_call_id |-> "c1",
                  content |-> [str |-> "r1"]],
                 [role |-> "tool", tool_call_id |-> "c2",
                  content |-> [str |-> "r2"]]} :
          AppendHistory(m)
    \/ AnthropicComplete

SpecHistory == Init /\ [][NextHistory]_vars

(* ----------------------- claims about SpecHistory --------------------- *)
\* the history h from message k on, with every maximal run of tool results
\* turned into one user turn of tool_result items
RECURSIVE Folded(_, _)
Folded(h, k) ==
    IF k > Len(h) THEN <<>>
    ELSE IF h[k].role # "tool" THEN <<h[k]>> \o Folded(h, k + 1)
    ELSE LET e == CHOOSE j \in k..Len(h) :
                     /\ \A i \in k..j : h[i].role = "tool"
                     /\ j = Len(h) \/ h[j + 1].role # "tool"
         IN  <<[role |-> "user",
                content |->
                  [list |-> [i \in 1..(e - k + 1) |->
                               [type |-> "tool_result",
                                tool_use_id |-> h[k + i - 1].tool_call_id,
                                content |-> h[k + i - 1].content]]]]>>
             \o Folded(h, e + 1)

BeginPage(t, space_id, par_block_id) ==
    /\ btx[t].pc = "idle"
    /\ nextBlock <= MaxBlocks
    /\ btx' = [btx EXCEPT ![t] =
                  [IdleBlockTx EXCEPT !.pc = "find", !.op = "page",
                                      !.id = nextBlock,
                                      !.space_id = space_id,
                                      !.parent_id = par_block_id]]
    /\ nextBlock' = nextBlock + 1
    /\ UNCHANGED <<spaces, blocks, block_embeddings, tool_sops,
                   tool_references, blkLast, storeVars, txVars, appVars,
                   idxVars, loopVars, msgVars>>

\* a session calls write_sop_block_to_parent(db_session, space_id,
\* par_block_id, sop_data): an empty SOP is rejected at once
BeginSop(t, space_id, par_block_id, sop_data) ==
    /\ btx[t].pc = "idle"
    /\ nextBlock <= MaxBlocks
    /\ btx' = [btx EXCEPT ![t] =
                  IF /\ sop_data.tool_sops = <<>>
                     /\ strip(sop_data.preferences) = ""
                  THEN [IdleBlockTx EXCEPT !.op = "sop",
                                           !.sop_data = sop_data,
                                           !.result = ResultReject]
                  ELSE [IdleBlockTx EXCEPT !.pc = "find", !.op = "sop",
                                           !.id = nextBlock,
                                           !.space_id = space_id,
                                           !.parent_id = par_block_id,
                                           !.sop_data = sop_data]]
    /\ nextBlock' = IF btx'[t].pc = "find" THEN nextBlock + 1 ELSE nextBlock
    /\ UNCHANGED <<spaces, blocks, block_embeddings, tool_sops,
                   tool_references, blkLast, storeVars, txVars, appVars,
                   idxVars, loopVars, msgVars>>

\* _find_block_sort reads the committed rows (the session has written none
\* of its own yet); then the Block is built and validate_for_creation runs
FindBlockSort(t) ==
    /\ btx[t].pc = "find"
    /\ LET x == btx[t]
           r == _find_block_sort(blocks, x.space_id, x.parent_id)
           type == IF x.op = "page" THEN "page" ELSE "sop"
       IN  btx' = [btx EXCEPT ![t] =
                     IF r.result # ResultResolve
                     THEN [x EXCEPT !.pc = "idle", !.result = ResultReject]
                     ELSE IF validate_for_creation(type, x.parent_id)
                               # ResultResolve
                     THEN [x EXCEPT !.pc = "idle", !.result = ResultReject]
                     ELSE [x EXCEPT !.pc = "flush", !.sort = r.sort]]
    /\ UNCHANGED <<blkVars, storeVars, txVars, appVars, idxVars, loopVars,
                   msgVars>>

\* db_session.add(new_block); await db_session.flush(): the INSERT waits
\* for a session that holds an equal uncommitted key and fails on an equal
\* committed key; the exception ends the session with a rollback
FlushBlock(t) ==
    /\ btx[t].pc = "flush"
    /\ LET x == btx[t]
           row == [space_id |-> x.space_id,
                   type |-> IF x.op = "page" THEN "page" ELSE "sop",
                   parent_id |-> x.parent_id, sort |-> x.sort]
       IN  /\ <<row.space_id, row.parent_id, row.sort>>
                 \notin PendingBlockKeys(t)
           /\ btx' = [btx EXCEPT ![t] =
                         IF ~flush_block(blocks, spaces, row)
                         THEN [x EXCEPT !.pc = "idle",
                                        !.result = "IntegrityError"]
                         ELSE [x EXCEPT !.pc = IF x.op = "page" THEN "commit"
                                               ELSE "steps",
                                        !.row = Some(row)]]
    /\ UNCHANGED <<blkVars, storeVars, txVars, appVars, idxVars, loopVars,
                   msgVars>>

\* the loop of write_sop_block_to_parent over the steps, which reads the
\* committed ToolReference rows: a TypeError ends the session with a
\* rollback, a rejection and the block id are returned to the caller
SopSteps(t) ==
    /\ btx[t].pc = "steps"
    /\ LET x == btx[t]
           st == sop_steps({}, tool_references, x.sop_data.tool_sops, 1, x.id)
       IN  btx' = [btx EXCEPT ![t] =
                     IF st.result = "TypeError"
                     THEN [x EXCEPT !.pc = "idle", !.row = None,
                                    !.result = "TypeError"]
                     ELSE [x EXCEPT !.pc = "commit", !.rows = st.T,
                                    !.result = IF st.result = ResultReject
                                               THEN ResultReject
                                               ELSE "asUUID"]]
    /\ UNCHANGED <<blkVars, storeVars, txVars, appVars, idxVars, loopVars,
                   msgVars>>

\* the caller leaves its session context without an exception: the rows
\* of the session are committed
CommitBlockTx(t) ==
    /\ btx[t].pc = "commit"
    /\ blocks' = (btx[t].id :> btx[t].row[1]) @@ blocks
    /\ tool_sops' = tool_sops \cup btx[t].rows
    /\ btx' = [btx EXCEPT ![t] =
                  [@ EXCEPT !.pc = "idle", !.row = None,
                            !.result = IF @ = "" THEN ResultResolve ELSE @]]
    /\ UNCHANGED <<spaces, nextBlock, block_embeddings, tool_references,
                   blkLast, storeVars, txVars, appVars, idxVars, loopVars,
                   msgVars>>

\* pages at the root of S1 and under block 1, and SOPs under block 1 that
\* name the tool with a ToolReference row (in two letter cases) and a tool
\* without one
NextRace ==
    \/ \E t \in BlockTxs, par \in {None, Some(1)} : BeginPage(t, "S1", par)
    \/ \E t \in BlockTxs, par \in {None, Some(1)},
          d \in {[preferences |-> "p", tool_sops |-> <<" Tool_A ">>],
                 [preferences |-> "p", tool_sops |-> <<"tool_a">>],
                 [preferences |-> "p", tool_sops |-> <<"tool_b">>],
                 [preferences |-> " ", tool_sops |-> <<>>]} :
          BeginSop(t, "S1", par, d)
    \/ \E t \in BlockTxs : FindBlockSort(t)
    \/ \E t \in BlockTxs : FlushBlock(t)
    \/ \E t \in BlockTxs : SopSteps(t)
    \/ \E t \in BlockTxs : CommitBlockTx(t)

SpecRace == Init /\ [][NextRace]_vars

(* ------------------------ claims about SpecRace ----------------------- *)
\* C39 as stated: two createBlock calls that run concurrently in separate
\* transactions under the same (space, parent), including parent = none
\* (root level), never end with two committed blocks that have the same
\* sort value under that (space, parent).
C39_ConcurrentSorts ==
    \A i, j \in DOMAIN blocks :
       (/\ i # j
        /\ blocks[i].space_id = blocks[j].space_id
        /\ blocks[i].parent_id = blocks[j].parent_id)
       => blocks[i].sort # blocks[j].sort

\* the tool that the one step of the SOP of session t names
ToolOf(t) == lower(strip(btx[t].sop_data.tool_sops[1]))

\* session t has run a write_sop_block_to_parent call to its end, and the
\* call stored its block and came to the steps of the procedure
SopEnded(t) ==
    /\ btx[t].op = "sop"
    /\ btx[t].pc = "idle"
    /\ btx[t].result \in {"asUUID", "TypeError"}
    /\ btx[t].sop_data.tool_sops # <<>>

\* C40 as stated: two SOP persistences that run concurrently in the same
\* project and name the same tool (up to letter case) end with exactly one
\* ToolReference row for that tool name, referenced by the ToolSOP rows of
\* both SOPs.
C40_OneReference ==
    \A t, u \in BlockTxs :
       (/\ t # u
        /\ SopEnded(t)
        /\ SopEnded(u)
        /\ ToolOf(t) = ToolOf(u))
       => /\ ToolOf(t) \in tool_references
          /\ \A v \in {t, u} :
                \E row \in tool_sops :
                   /\ row.sop_block_id = btx[v].id
                   /\ row.tool_reference_id = ToolOf(t)

====
